---- MODULE Spec2Model ----
(***************************************************************************)
(* Model of the group-state synchronisation and score ledger of            *)
(* src/src/utils.js.                                                       *)
(*                                                                         *)
(* JavaScript objects are TLA+ functions whose DOMAIN is the set of keys   *)
(* the object owns: {} is the function with the empty domain, obj[k] = v   *)
(* is SetField, `delete obj[k]` is DelField, and an undefined property is  *)
(* a key outside the DOMAIN.  Every callback of the source is one atomic   *)
(* action (node runs callbacks to completion); a store or provider request *)
(* in flight is a position of the calling task, and the request's outcome  *)
(* is chosen when its callback runs.                                       *)
(***************************************************************************)
EXTENDS Integers, Sequences, FiniteSets, TLC

\* ---------------------------------------------------------------- bounds
\* Tasks that can be in flight at once, and calls made in one run.
NumRefreshers == 1
NumUpdaters == 2
MaxCalls == 3
NumScorers == 2
MaxScoreCalls == 3
NumAggs == 1
MaxTime == 2
NumStaters == 1
MaxStatCalls == 2
NumEvents == 1
NumAdders == 1
NumKickers == 2
MaxAddCalls == 3
MaxKickCalls == 1
MaxBufferLimit == 2

Refreshers == 1..NumRefreshers
Updaters == 1..NumUpdaters
Scorers == 1..NumScorers
Aggs == 1..NumAggs
Staters == 1..NumStaters
EventTasks == 1..NumEvents
Adders == 1..NumAdders
Kickers == 1..NumKickers

\* ------------------------------------------------------ configuration
BotId == "bot"
OwnerId == "own"
Threads == {"t1", OwnerId}
TaskThreads == {"t1"}
Users == {"u1", "u2"}
MsgIds == {"m1"}

\* ----------------------------------------------------------- JS objects
EmptyObj == [k \in {} |-> 0]

SetField(o, k, v) == [f \in (DOMAIN o) \cup {k} |-> IF f = k THEN v ELSE o[f]]

DelField(o, k) == [f \in (DOMAIN o) \ {k} |-> o[f]]

Has(o, k) == k \in DOMAIN o

\* The result of getGroupInfo when the group is not in the list.
Absent == EmptyObj

\* ----------------------------------------------------- JSON conversion
\* A Date is <<"Date", n>>, null is <<"null", 0>>, a string holding the ISO
\* form of Date n is <<"string", n>>.
NullValue == <<"null", 0>>

DateValue(n) == <<"Date", n>>

\* Date.prototype.toJSON: JSON.stringify writes a Date as its ISO string.
ToJSON(v) == IF v[1] = "Date" THEN <<"string", v[2]>> ELSE v

\* JSON.stringify of one event or reminder: remind_time is the only member
\* that addEvent stores as an object (a Date or null).
StringifyEvent(e) ==
    [f \in DOMAIN e |-> IF f = "remind_time" THEN ToJSON(e[f]) ELSE e[f]]

\* JSON.stringify of one group record.
StringifyInfo(info) ==
    [f \in DOMAIN info |->
        IF f = "events"
        THEN [k \in DOMAIN info[f] |-> StringifyEvent(info[f][k])]
        ELSE info[f]]

\* JSON.stringify(groupData): the text written under the key `groups`.
Stringify(groupData) ==
    [kind |-> "json",
     val |-> [t \in DOMAIN groupData |-> StringifyInfo(groupData[t])]]

\* The key `groups` was never set / holds the empty string.
AbsentBlob == [kind |-> "absent", val |-> EmptyObj]

EmptyBlob == [kind |-> "empty", val |-> EmptyObj]

\* getGroupData's `(groups && groups.length) ? JSON.parse(groups) : {}`.
ParseGroups(groups) == IF groups.kind = "json" THEN groups.val ELSE EmptyObj

\* getGroupInfo's `groupData[threadId]`, undefined when not in the list.
GroupOf(groupData, threadId) ==
    IF Has(groupData, threadId) THEN groupData[threadId] ELSE Absent

\* The outcome of one store request: it succeeds or the client reports an error.
StoreOutcomes == {"ok", "fail"}

\* ------------------------------------------------------------ provider
FirstName(id) == CASE id = "u1" -> "Al" [] id = "u2" -> "Bo" [] OTHER -> "Bot"

ToLowerCase(s) ==
    CASE s = "Al" -> "al" [] s = "Bo" -> "bo" [] s = "Bot" -> "bot"
      [] s = "Party" -> "party" [] OTHER -> s

Trim(s) == CASE s = " Party" -> "Party" [] OTHER -> s

\* configutils.getRegexFromMembers: the pattern, as the set of names it is
\* an alternation of.
getRegexFromMembers(names) == names

VARIABLES
    groups,         \* the value of the store key `groups`
    lockedThreads,  \* the module's lock list
    dbFailSilently, \* config.dbFailSilently
    calls,          \* number of provider calls made, by kind and thread
    rpc, rThread, rErr, rExisting, rShould, rIsNew, rData, rInfo, rBlob, rCb,
    rNoData,        \* history: api.getThreadInfo delivered no data to the task
    rSets,          \* history: number of mem.set requests the task issued
    upc, uInfo, uKey, uValue, uBlob, uCb,
    uSnap,          \* history: the record the task's getGroupInfo delivered
    uLost,          \* history: the record a refresh stored during the task's delay
    started,        \* number of refresh and updater tasks started
    lastSet,        \* history: the latest setGroupInfo whose write succeeded
    votePoints,     \* config.votePoints, 0 when it is not configured
    scores,         \* the store keys userscore_<id>
    spc, sUser, sIsAdd, sNew, sCb,
    sReadOk,        \* history: the task's getScore succeeded
    scoreCalls,     \* number of updateScore calls made
    sSeen,          \* history: the stored score when the task's read was served
    clock,          \* (new Date()).getTime(), in units of the model
    asyncTimeout,   \* config.asyncTimeout
    apc, aKind, aSubjects, aNow, aWaiting, aResults,
    aCb,            \* the invocations of the aggregate's callback, in order
    aEarly,         \* history: number of results that arrived before the timeout
    usageAll,       \* the store key usage_total_all
    usageTotal,     \* the store keys usage_total_<command>
    usageRecord,    \* the store keys usage_record_<command>
    tpc, tCmd, tUser, tCount, tStats, tErrs, tCb,
    statCalls,      \* number of updateStats calls made
    tReadFailed,    \* history: one of the task's store reads failed
    tBefore,        \* history: the usage keys when the task was called
    tOverlap,       \* history: another updateStats ran while the task did
    epc, eKind, eTitle, eSender, eEarly, eConfirm, eInfo, eMinfo,
    eSnap,          \* history: groupInfo as it was handed to the command
    eOutcome,       \* history: the branch the command took
    eMsgs,          \* history: the messages the command handed to sendMessage
    uFrom,          \* history: the command whose setGroupProperty call the updater serves
    addBufferLimit, \* config.addBufferLimit
    dpc, dRetry, dBuffer,
    dAttempts,      \* history: number of api.addUserToGroup requests of the call
    dCb,            \* the invocations of addUser's callback, in order
    dLastErr,       \* history: what the latest api.addUserToGroup reported
    kpc, kUser, kTime,
    kHasCb,         \* the kick was handed the caller's callback
    kCb,            \* number of invocations of the kick's callback
    removals,       \* history: the api.removeUserFromGroup requests, in order
    mLast,          \* history: the latest membership call
    memberCalls,    \* number of addUser, kick and kickMultiple calls the callers made
    refreshCalls,   \* number of updateGroupInfo calls the membership operations made
    errorsSent      \* number of sendError calls the membership operations made

storeVars == <<groups, lockedThreads, dbFailSilently, calls>>

refVars == <<rpc, rThread, rErr, rExisting, rShould, rIsNew, rData, rInfo, rBlob, rCb,
             rNoData, rSets>>

updVars == <<upc, uInfo, uKey, uValue, uBlob, uCb, uSnap, uLost>>

scoreVars == <<votePoints, scores, spc, sUser, sIsAdd, sNew, sCb, sReadOk, scoreCalls, sSeen>>

aggVars == <<clock, asyncTimeout, apc, aKind, aSubjects, aNow, aWaiting, aResults, aCb, aEarly>>

statVars == <<usageAll, usageTotal, usageRecord, tpc, tCmd, tUser, tCount, tStats, tErrs, tCb,
              statCalls, tReadFailed, tBefore, tOverlap>>

evtVars == <<epc, eKind, eTitle, eSender, eEarly, eConfirm, eInfo, eMinfo, eSnap, eOutcome,
             eMsgs, uFrom>>

addVars == <<dpc, dRetry, dBuffer, dAttempts, dCb, dLastErr>>

kickVars == <<kpc, kUser, kTime, kHasCb, kCb, removals>>

memberVars == <<addBufferLimit, addVars, kickVars, mLast, memberCalls, refreshCalls, errorsSent>>

groupVars == <<storeVars, refVars, updVars, started, lastSet>>

\* What the group tasks, the score tasks and the aggregate queries leave alone.
ledgerVars == <<scoreVars, aggVars, statVars, memberVars>>

notGroupVars == <<ledgerVars, evtVars>>

notScoreVars == <<groupVars, aggVars, statVars, evtVars, memberVars>>

notAggVars == <<groupVars, scoreVars, statVars, evtVars, memberVars>>

notStatVars == <<groupVars, scoreVars, aggVars, evtVars, memberVars>>

notMemberVars == <<groupVars, scoreVars, aggVars, statVars, evtVars>>

vars == <<groupVars, scoreVars, aggVars, statVars, evtVars, memberVars>>

CallKinds == {"greeting", "nickname", "mute", "ownerNotice", "ready"}

NoSet ==
    [by |-> "none", threadId |-> "none", info |-> EmptyObj,
     key |-> "none", snap |-> EmptyObj, lost |-> EmptyObj]

\* No refresh is running and none has run.
RefIdle ==
    /\ calls = [c \in CallKinds \X Threads |-> 0]
    /\ rpc = [r \in Refreshers |-> "idle"]
    /\ rThread = [r \in Refreshers |-> "t1"]
    /\ rErr = [r \in Refreshers |-> "null"]
    /\ rExisting = [r \in Refreshers |-> Absent]
    /\ rShould = [r \in Refreshers |-> FALSE]
    /\ rIsNew = [r \in Refreshers |-> FALSE]
    /\ rData = [r \in Refreshers |-> EmptyObj]
    /\ rInfo = [r \in Refreshers |-> EmptyObj]
    /\ rBlob = [r \in Refreshers |-> AbsentBlob]
    /\ rCb = [r \in Refreshers |-> <<>>]
    /\ rNoData = [r \in Refreshers |-> FALSE]
    /\ rSets = [r \in Refreshers |-> 0]
    /\ started = 0
    /\ lastSet = NoSet

\* No thread is locked, no property update is running.
UpdIdle ==
    /\ lockedThreads = <<>>
    /\ upc = [u \in Updaters |-> "idle"]
    /\ uInfo = [u \in Updaters |-> EmptyObj]
    /\ uKey = [u \in Updaters |-> "none"]
    /\ uValue = [u \in Updaters |-> EmptyObj]
    /\ uBlob = [u \in Updaters |-> AbsentBlob]
    /\ uCb = [u \in Updaters |-> <<>>]
    /\ uSnap = [u \in Updaters |-> EmptyObj]
    /\ uLost = [u \in Updaters |-> EmptyObj]

TasksIdle == RefIdle /\ UpdIdle

\* The module as loaded: the key `groups` was never set or holds an empty string.
GroupLoaded ==
    /\ groups \in {AbsentBlob, EmptyBlob}
    /\ TasksIdle

\* The bot configured to message (config.dbFailSilently off).
GroupInit == GroupLoaded /\ dbFailSilently = FALSE

\* The bot configured to fail silently (config.dbFailSilently on).
SilentInit == GroupLoaded /\ dbFailSilently = TRUE

\* The positions of a task slot that holds no running task: never used, ended
\* in its callback, ended without a record, dropped at the lock, or left
\* without a continuation by setGroupInfo.
Finished == {"idle", "done", "noinfo", "dropped", "hung"}

\* ------------------------------------------------------------ lock list
\* Mutant: the lock list is never consulted.
IncludesNever(list, threadId) == FALSE

\* lockedThreads.includes(threadId)
Includes(list, threadId) == \E i \in DOMAIN list : list[i] = threadId

\* lockedThreads.filter(t => t != threadId)
FilterOut(list, threadId) == SelectSeq(list, LAMBDA t : t # threadId)

\* ------------------------------------------------- the callers' inputs
\* The event object addEvent builds: remind_time is a Date, or null when it
\* is too late for an early reminder.
NewEvent(keyTitle, sender, threadId, early) ==
    [type |-> "event", key_title |-> keyTitle, timestamp |-> 2, owner |-> sender,
     threadId |-> threadId,
     remind_time |-> IF early THEN DateValue(1) ELSE NullValue]

\* What the callers of setGroupProperty pass for a record `info`: the key, the
\* value, and the record as the caller left it.  addPin, deletePin, addEvent
\* and deleteEvent change info.pinned / info.events in place before the call.
PropertyInputs(info) ==
    LET t == info["threadId"]
        inPlace(key, value) ==
            [key |-> key, value |-> value, info |-> SetField(info, key, value)]
        passed(key, value) == [key |-> key, value |-> value, info |-> info]
    IN  {passed("lastBotMessageID", m) : m \in MsgIds}
        \cup {passed("aliases", SetField(info["aliases"], "al", "ace"))}
        \cup {inPlace("pinned", SetField(info["pinned"], "intro", "pin1"))}
        \cup {inPlace("pinned", DelField(info["pinned"], "intro")) :
                x \in {k \in DOMAIN info["pinned"] : k = "intro"}}
        \cup {inPlace("events",
                      SetField(info["events"], "party", NewEvent("party", "u1", t, early))) :
                early \in {b \in BOOLEAN : ~Has(info["events"], "party")}}
        \cup {inPlace("events", DelField(info["events"], "party")) :
                x \in {k \in DOMAIN info["events"] : k = "party"}}

\* ------------------------------------------------------ setGroupInfo
\* setGroupInfo's `groupData[info.threadId] = info` followed by the
\* JSON.stringify(groupData) that is handed to mem.set.
SetGroupInfoBlob(groupData, info) ==
    Stringify(SetField(groupData, info["threadId"], info))

\* ------------------------------------------------ Group Property Updater
\* The locals of updater task u are dropped when the task ends (its closures
\* are dead); the callback invocations it made stay visible in uCb.
UpdEnd(u, pc) ==
    /\ upc' = [upc EXCEPT ![u] = pc]
    /\ uInfo' = [uInfo EXCEPT ![u] = EmptyObj]
    /\ uKey' = [uKey EXCEPT ![u] = "none"]
    /\ uValue' = [uValue EXCEPT ![u] = EmptyObj]
    /\ uBlob' = [uBlob EXCEPT ![u] = AbsentBlob]
    /\ uSnap' = [uSnap EXCEPT ![u] = EmptyObj]
    /\ uLost' = [uLost EXCEPT ![u] = EmptyObj]

\* A command handler or sendMessage's bookkeeping: getGroupInfo(threadId)
\* calls back.  Without a record there is nothing to update.
UpdGotInfo(u, threadId) ==
    /\ upc[u] \in Finished
    /\ \A q \in Updaters : q < u => upc[q] \notin Finished
    /\ started < MaxCalls
    /\ started' = started + 1
    /\ uCb' = [uCb EXCEPT ![u] = <<>>]
    /\ \E outcome \in StoreOutcomes :
        LET info == IF outcome = "ok"
                    THEN GroupOf(ParseGroups(groups), threadId) ELSE Absent
        IN  /\ uInfo' = [uInfo EXCEPT ![u] = info]
            /\ uSnap' = [uSnap EXCEPT ![u] = info]
            /\ upc' = [upc EXCEPT ![u] = IF info = Absent THEN "noinfo" ELSE "haveInfo"]
    /\ UNCHANGED <<notGroupVars, storeVars, refVars, uKey, uValue, uBlob, uLost, lastSet>>

\* setGroupProperty(key, value, info, callback)
SetGroupProperty(u) ==
    /\ upc[u] = "haveInfo"
    /\ \E inp \in PropertyInputs(uInfo[u]) :
        IF ~Includes(lockedThreads, inp.info["threadId"])
        THEN /\ uInfo' = [uInfo EXCEPT ![u] = SetField(inp.info, inp.key, inp.value)]
             /\ uKey' = [uKey EXCEPT ![u] = inp.key]
             /\ uValue' = [uValue EXCEPT ![u] = inp.value]
             /\ lockedThreads' = Append(lockedThreads, inp.info["threadId"])
             /\ upc' = [upc EXCEPT ![u] = "timer"]
             /\ UNCHANGED <<uBlob, uSnap, uLost>>
        ELSE /\ UpdEnd(u, "dropped")
             /\ lockedThreads' = lockedThreads
    /\ UNCHANGED <<notGroupVars, groups, dbFailSilently, calls, refVars, uCb, started, lastSet>>

\* The 1500 ms timer fires: setGroupInfo(info, ...) issues getGroupData.
UpdTimer(u) ==
    /\ upc[u] = "timer"
    /\ upc' = [upc EXCEPT ![u] = "setRead"]
    /\ UNCHANGED <<notGroupVars, storeVars, refVars, uInfo, uKey, uValue, uBlob, uCb, uSnap, uLost,
                   started, lastSet>>

\* Mutant: the persist patches the one key into the record as it is stored now.
UpdSetReadPatch(u) ==
    /\ upc[u] = "setRead"
    /\ \E outcome \in StoreOutcomes :
        IF outcome = "ok"
        THEN /\ uBlob' = [uBlob EXCEPT ![u] =
                    SetGroupInfoBlob(ParseGroups(groups),
                        SetField(GroupOf(ParseGroups(groups), uInfo[u]["threadId"]),
                                 uKey[u], uValue[u]))]
             /\ upc' = [upc EXCEPT ![u] = "setWrite"]
             /\ UNCHANGED <<uInfo, uKey, uValue, uSnap, uLost>>
        ELSE UpdEnd(u, "hung")
    /\ UNCHANGED <<notGroupVars, storeVars, refVars, uCb, started, lastSet>>

\* setGroupInfo's getGroupData calls back: on an error nothing more happens,
\* otherwise the whole mapping is re-serialised and handed to mem.set.
UpdSetRead(u) ==
    /\ upc[u] = "setRead"
    /\ \E outcome \in StoreOutcomes :
        IF outcome = "ok"
        THEN /\ uBlob' = [uBlob EXCEPT ![u] = SetGroupInfoBlob(ParseGroups(groups), uInfo[u])]
             /\ upc' = [upc EXCEPT ![u] = "setWrite"]
             /\ UNCHANGED <<uInfo, uKey, uValue, uSnap, uLost>>
        ELSE UpdEnd(u, "hung")
    /\ UNCHANGED <<notGroupVars, storeVars, refVars, uCb, started, lastSet>>

\* mem.set calls back: `callback(success ? null : err)`, then the lock is
\* removed and the caller's callback gets the error.
UpdSetWriteStep(u) ==
    /\ upc[u] = "setWrite"
    /\ \E outcome \in StoreOutcomes :
        /\ groups' = IF outcome = "ok" THEN uBlob[u] ELSE groups
        /\ lastSet' = IF outcome = "ok"
                      THEN [by |-> "updater", threadId |-> uInfo[u]["threadId"],
                            info |-> uInfo[u], key |-> uKey[u], snap |-> uSnap[u],
                            lost |-> uLost[u]]
                      ELSE lastSet
        /\ uCb' = [uCb EXCEPT ![u] = Append(@, IF outcome = "ok" THEN "null" ELSE "err")]
    /\ lockedThreads' = FilterOut(lockedThreads, uInfo[u]["threadId"])
    /\ UpdEnd(u, "done")
    /\ UNCHANGED <<ledgerVars, dbFailSilently, calls, refVars, started>>

\* The persist of an update whose caller passed no callback of its own.
UpdSetWrite(u) == UpdSetWriteStep(u) /\ UNCHANGED evtVars

\* ------------------------------------------------- Group Info Refresher
\* What api.getThreadInfo can deliver: the admins as {id: ...} objects, the
\* participants (the bot is one of them) and the group flag.
ThreadData ==
    {[adminIDs |-> <<[id |-> "u1"]>>, participantIDs |-> {"u1", BotId}, isGroup |-> FALSE],
     [adminIDs |-> <<[id |-> "u1"], [id |-> BotId]>>,
      participantIDs |-> {"u1", "u2", BotId}, isGroup |-> TRUE]}

\* api.getUserInfo(ids): one entry per id.
UserData(ids) == [id \in ids |-> [firstName |-> FirstName(id)]]

\* The one-time initialisation of a record.
InitOnce(info, data) ==
    SetField(SetField(SetField(SetField(SetField(SetField(info,
        "muted", TRUE),
        "playlists", EmptyObj),
        "aliases", EmptyObj),
        "pinned", EmptyObj),
        "events", EmptyObj),
        "isGroup", data.isGroup)

\* `info.admins = data.adminIDs ? data.adminIDs.map(u => u["id"]) : []`
AdminIds(data) == [i \in DOMAIN data.adminIDs |-> data.adminIDs[i].id]

\* Mutant: the one-time fields are initialised on every refresh.
MergeThreadDataAlwaysInit(existingInfo, threadId, data, isNew) ==
    InitOnce(SetField(SetField(existingInfo, "threadId", threadId), "admins", AdminIds(data)),
             data)

\* The merge of the thread metadata into the record (name, emoji, image, colour,
\* nicknames and lastMessage are copied from the provider and not modelled).
\* `existingInfo || {}`: Absent is {}.
MergeThreadData(existingInfo, threadId, data, isNew) ==
    LET info == SetField(SetField(existingInfo, "threadId", threadId),
                         "admins", AdminIds(data))
    IN  IF isNew THEN InitOnce(info, data) ELSE info

\* Mutant: the bot is not filtered out of the participants.
KeptIdsAll(userData) == DOMAIN userData

\* The participants that are kept: every id of userData but the bot's.
KeptIds(userData) == {id \in DOMAIN userData : id # BotId}

\* The rebuild of members, names and userRegExp from the user data.
MergeUserData(info, userData) ==
    LET ids == KeptIds(userData)
        members == [n \in {ToLowerCase(userData[id].firstName) : id \in ids} |->
                        CHOOSE id \in ids : ToLowerCase(userData[id].firstName) = n]
        names == [id \in ids |-> userData[id].firstName]
        aliases == {info["aliases"][n] : n \in DOMAIN info["aliases"]}
        matches == DOMAIN members
    IN  SetField(SetField(SetField(info,
            "members", members),
            "names", names),
            "userRegExp", getRegexFromMembers(matches \cup aliases))

Called(c, kinds, threadId) ==
    [k \in CallKinds \X Threads |->
        IF k[2] = threadId /\ k[1] \in kinds THEN c[k] + 1 ELSE c[k]]

\* The locals of refresh task r are dropped when the task ends; the callback
\* invocations it made stay visible in rCb.
RefLocalsDropped(r) ==
    /\ rThread' = [rThread EXCEPT ![r] = "t1"]
    /\ rErr' = [rErr EXCEPT ![r] = "null"]
    /\ rExisting' = [rExisting EXCEPT ![r] = Absent]
    /\ rShould' = [rShould EXCEPT ![r] = FALSE]
    /\ rIsNew' = [rIsNew EXCEPT ![r] = FALSE]
    /\ rData' = [rData EXCEPT ![r] = EmptyObj]
    /\ rInfo' = [rInfo EXCEPT ![r] = EmptyObj]
    /\ rBlob' = [rBlob EXCEPT ![r] = AbsentBlob]

RefEnd(r, pc) ==
    /\ rpc' = [rpc EXCEPT ![r] = pc]
    /\ RefLocalsDropped(r)
    /\ UNCHANGED <<rNoData, rSets>>

\* updateGroupInfo(threadId, message, callback): the first getGroupInfo calls back.
RefGotInfo(r, threadId) ==
    /\ rpc[r] \in Finished
    /\ \A q \in Refreshers : q < r => rpc[q] \notin Finished
    /\ started < MaxCalls
    /\ started' = started + 1
    /\ rThread' = [rThread EXCEPT ![r] = threadId]
    /\ rCb' = [rCb EXCEPT ![r] = <<>>]
    /\ \E outcome \in StoreOutcomes :
        /\ rErr' = [rErr EXCEPT ![r] = IF outcome = "ok" THEN "null" ELSE "err"]
        /\ rExisting' = [rExisting EXCEPT ![r] =
                IF outcome = "ok" THEN GroupOf(ParseGroups(groups), threadId) ELSE Absent]
    /\ rpc' = [rpc EXCEPT ![r] = "getOwner"]
    /\ rNoData' = [rNoData EXCEPT ![r] = FALSE]
    /\ rSets' = [rSets EXCEPT ![r] = 0]
    /\ UNCHANGED <<notGroupVars, storeVars, rShould, rIsNew, rData, rInfo, rBlob, updVars, lastSet>>

\* getGroupInfo(config.owner.id) calls back: the first-time chatter, then
\* api.getThreadInfo is asked; or, on a store error, callback(err).
RefGotOwner(r) ==
    /\ rpc[r] = "getOwner"
    /\ \E outcome \in StoreOutcomes :
        LET ownerErr == outcome # "ok"
            ownerData == IF ownerErr THEN Absent ELSE GroupOf(ParseGroups(groups), OwnerId)
            shouldSendMessage == ~dbFailSilently \/ ownerData # Absent
            isNew == rExisting[r] = Absent
        IN  IF rErr[r] = "null" /\ ~ownerErr
            THEN /\ rShould' = [rShould EXCEPT ![r] = shouldSendMessage]
                 /\ rIsNew' = [rIsNew EXCEPT ![r] = isNew]
                 /\ calls' = IF isNew
                             THEN Called(calls,
                                         IF shouldSendMessage
                                         THEN {"greeting", "nickname", "mute"} ELSE {"mute"},
                                         rThread[r])
                             ELSE calls
                 /\ rpc' = [rpc EXCEPT ![r] = "threadInfo"]
                 /\ UNCHANGED <<rThread, rErr, rExisting, rData, rInfo, rBlob, rCb, rNoData, rSets>>
            ELSE /\ rCb' = [rCb EXCEPT ![r] = Append(@, rErr[r])]
                 /\ RefEnd(r, "done")
                 /\ calls' = calls
    /\ UNCHANGED <<notGroupVars, groups, lockedThreads, dbFailSilently, updVars, started, lastSet>>

\* Mutant: without data the refresh goes on to api.getUserInfo with the record
\* as it was read.
RefThreadInfoNoAbort(r) ==
    /\ rpc[r] = "threadInfo"
    /\ \/ \E data \in ThreadData :
            /\ rInfo' = [rInfo EXCEPT ![r] =
                    MergeThreadData(rExisting[r], rThread[r], data, rIsNew[r])]
            /\ rData' = [rData EXCEPT ![r] = data]
            /\ rNoData' = rNoData
       \/ \E data \in ThreadData :
            /\ rInfo' = [rInfo EXCEPT ![r] = SetField(rExisting[r], "threadId", rThread[r])]
            /\ rData' = [rData EXCEPT ![r] = data]
            /\ rNoData' = [rNoData EXCEPT ![r] = TRUE]
    /\ rpc' = [rpc EXCEPT ![r] = "userInfo"]
    /\ UNCHANGED <<notGroupVars, storeVars, rThread, rErr, rExisting, rShould, rIsNew, rBlob, rCb,
                   rSets, updVars, started, lastSet>>

\* api.getThreadInfo calls back: with data the metadata is merged and
\* api.getUserInfo is asked, without data the refresh ends in callback(err).
RefThreadInfo(r) ==
    /\ rpc[r] = "threadInfo"
    /\ \/ \E data \in ThreadData :
            /\ rInfo' = [rInfo EXCEPT ![r] =
                    MergeThreadData(rExisting[r], rThread[r], data, rIsNew[r])]
            /\ rData' = [rData EXCEPT ![r] = data]
            /\ rpc' = [rpc EXCEPT ![r] = "userInfo"]
            /\ UNCHANGED <<rThread, rErr, rExisting, rShould, rIsNew, rBlob, rCb, rNoData, rSets>>
       \/ /\ rCb' = [rCb EXCEPT ![r] = Append(@, "err")]
          /\ rpc' = [rpc EXCEPT ![r] = "done"]
          /\ rNoData' = [rNoData EXCEPT ![r] = TRUE]
          /\ RefLocalsDropped(r)
          /\ rSets' = rSets
    /\ UNCHANGED <<notGroupVars, storeVars, updVars, started, lastSet>>

\* api.getUserInfo calls back: without an error members, names and userRegExp
\* are rebuilt and the owner is told of a new chat; in both cases
\* setGroupInfo(info, ...) issues getGroupData.
RefUserInfo(r) ==
    /\ rpc[r] = "userInfo"
    /\ \/ /\ rInfo' = [rInfo EXCEPT ![r] = MergeUserData(@, UserData(rData[r].participantIDs))]
          /\ calls' = IF rIsNew[r] /\ rShould[r]
                      THEN Called(calls, {"ownerNotice"}, OwnerId) ELSE calls
       \/ UNCHANGED <<rInfo, calls>>
    /\ rpc' = [rpc EXCEPT ![r] = "setRead"]
    /\ UNCHANGED <<notGroupVars, groups, lockedThreads, dbFailSilently, rThread, rErr, rExisting,
                   rShould, rIsNew, rData, rBlob, rCb, rNoData, rSets, updVars, started,
                   lastSet>>

\* setGroupInfo's getGroupData calls back (see UpdSetRead).
RefSetRead(r) ==
    /\ rpc[r] = "setRead"
    /\ \E outcome \in StoreOutcomes :
        IF outcome = "ok"
        THEN /\ rBlob' = [rBlob EXCEPT ![r] = SetGroupInfoBlob(ParseGroups(groups), rInfo[r])]
             /\ rpc' = [rpc EXCEPT ![r] = "setWrite"]
             /\ rSets' = [rSets EXCEPT ![r] = @ + 1]
             /\ UNCHANGED <<rThread, rErr, rExisting, rShould, rIsNew, rData, rInfo, rNoData>>
        ELSE RefEnd(r, "hung")
    /\ UNCHANGED <<notGroupVars, storeVars, rCb, updVars, started, lastSet>>

\* mem.set calls back: the closing message of a first registration, then
\* callback(err, info).
RefSetWrite(r) ==
    /\ rpc[r] = "setWrite"
    /\ \E outcome \in StoreOutcomes :
        /\ groups' = IF outcome = "ok" THEN rBlob[r] ELSE groups
        /\ lastSet' = IF outcome = "ok"
                      THEN [by |-> "refresher", threadId |-> rThread[r], info |-> rInfo[r],
                            key |-> "none", snap |-> EmptyObj, lost |-> EmptyObj]
                      ELSE lastSet
        /\ uLost' = [u \in Updaters |->
                        IF outcome = "ok" /\ upc[u] = "timer" /\ uInfo[u]["threadId"] = rThread[r]
                        THEN GroupOf(rBlob[r].val, rThread[r]) ELSE uLost[u]]
        /\ rCb' = [rCb EXCEPT ![r] = Append(@, IF outcome = "ok" THEN "null" ELSE "err")]
    /\ calls' = IF rExisting[r] = Absent /\ rShould[r]
                THEN Called(calls, {"ready"}, rThread[r]) ELSE calls
    /\ RefEnd(r, "done")
    /\ UNCHANGED <<notGroupVars, lockedThreads, dbFailSilently, upc, uInfo, uKey, uValue, uBlob, uCb,
                   uSnap, started>>

Next ==
    \/ \E r \in Refreshers, t \in TaskThreads : RefGotInfo(r, t)
    \/ \E r \in Refreshers : RefGotOwner(r)
    \/ \E r \in Refreshers : RefThreadInfo(r)
    \/ \E r \in Refreshers : RefUserInfo(r)
    \/ \E r \in Refreshers : RefSetRead(r)
    \/ \E r \in Refreshers : RefSetWrite(r)
    \/ \E u \in Updaters, t \in TaskThreads : UpdGotInfo(u, t)
    \/ \E u \in Updaters : SetGroupProperty(u)
    \/ \E u \in Updaters : UpdTimer(u)
    \/ \E u \in Updaters : UpdSetRead(u)
    \/ \E u \in Updaters : UpdSetWrite(u)

\* ---------------------------------------------------------- Score Ledger
\* A stored value is the decimal text of an integer, <<"text", n>>, or absent.
NoValue == <<"absent", 0>>

\* `${newScore}`
ToText(n) == <<"text", n>>

\* parseInt(val.toString())
ParseInt(val) == val[2]

\* `val ? parseInt(val.toString()) : 0`
CurrentScore(val) == IF val # NoValue THEN ParseInt(val) ELSE 0

\* Mutant: the default is one point.
PointsDefaultOne(configured) == IF configured # 0 THEN configured ELSE 1

\* `config.votePoints || 5`
Points(configured) == IF configured # 0 THEN configured ELSE 5

\* `isAdd ? (score + points) : (score - points)`
NewScore(isAdd, score, points) == IF isAdd THEN score + points ELSE score - points

ScoreInit ==
    /\ votePoints \in {0, 3}
    /\ scores = [id \in Users |-> NoValue]
    /\ spc = [s \in Scorers |-> "idle"]
    /\ sUser = [s \in Scorers |-> "u1"]
    /\ sIsAdd = [s \in Scorers |-> FALSE]
    /\ sNew = [s \in Scorers |-> 0]
    /\ sCb = [s \in Scorers |-> <<>>]
    /\ sReadOk = [s \in Scorers |-> FALSE]
    /\ scoreCalls = 0
    /\ sSeen = [s \in Scorers |-> NoValue]

\* The ledger untouched: no score task is started in the group specification.
ScoreIdle ==
    /\ votePoints = 0
    /\ scores = [id \in Users |-> NoValue]
    /\ spc = [s \in Scorers |-> "idle"]
    /\ sUser = [s \in Scorers |-> "u1"]
    /\ sIsAdd = [s \in Scorers |-> FALSE]
    /\ sNew = [s \in Scorers |-> 0]
    /\ sCb = [s \in Scorers |-> <<>>]
    /\ sReadOk = [s \in Scorers |-> FALSE]
    /\ scoreCalls = 0
    /\ sSeen = [s \in Scorers |-> NoValue]

\* The group store untouched: no group task is started in the score specification.
GroupIdle ==
    /\ GroupInit
    /\ groups = AbsentBlob

\* updateScore(isAdd, userId, callback): getScore is issued.
UpdateScore(s, isAdd, userId) ==
    /\ spc[s] \in {"idle", "done"}
    /\ \A q \in Scorers : q < s => spc[q] \notin {"idle", "done"}
    /\ scoreCalls < MaxScoreCalls
    /\ scoreCalls' = scoreCalls + 1
    /\ spc' = [spc EXCEPT ![s] = "getScore"]
    /\ sUser' = [sUser EXCEPT ![s] = userId]
    /\ sIsAdd' = [sIsAdd EXCEPT ![s] = isAdd]
    /\ sCb' = [sCb EXCEPT ![s] = <<>>]
    /\ sNew' = [sNew EXCEPT ![s] = 0]
    /\ sSeen' = [sSeen EXCEPT ![s] = NoValue]
    /\ sReadOk' = [sReadOk EXCEPT ![s] = FALSE]
    /\ UNCHANGED <<notScoreVars, votePoints, scores>>

\* getScore calls back: on an error the callback gets it, and in both cases
\* (there is no return after callback(err)) the new score is computed from
\* `val` and handed to setScore.
ScoreGot(s) ==
    /\ spc[s] = "getScore"
    /\ \E outcome \in StoreOutcomes :
        LET val == IF outcome = "ok" THEN scores[sUser[s]] ELSE NoValue
            newScore == NewScore(sIsAdd[s], CurrentScore(val), Points(votePoints))
        IN  /\ sCb' = [sCb EXCEPT ![s] =
                    IF outcome = "ok" THEN @
                    ELSE Append(@, [err |-> "err", success |-> FALSE, newScore |-> 0])]
            /\ sNew' = [sNew EXCEPT ![s] = newScore]
            /\ sSeen' = [sSeen EXCEPT ![s] = scores[sUser[s]]]
            /\ sReadOk' = [sReadOk EXCEPT ![s] = outcome = "ok"]
    /\ spc' = [spc EXCEPT ![s] = "setScore"]
    /\ UNCHANGED <<notScoreVars, votePoints, scores, sUser, sIsAdd, scoreCalls>>

\* setScore's mem.set calls back: callback(err, success, newScore).
ScoreSet(s) ==
    /\ spc[s] = "setScore"
    /\ \E outcome \in StoreOutcomes :
        /\ scores' = IF outcome = "ok"
                     THEN [scores EXCEPT ![sUser[s]] = ToText(sNew[s])] ELSE scores
        /\ sCb' = [sCb EXCEPT ![s] = Append(@,
                    [err |-> IF outcome = "ok" THEN "null" ELSE "err",
                     success |-> outcome = "ok", newScore |-> sNew[s]])]
    /\ spc' = [spc EXCEPT ![s] = "done"]
    /\ UNCHANGED <<notScoreVars, votePoints, sUser, sIsAdd, sNew, sReadOk, scoreCalls, sSeen>>

NextScore ==
    \/ \E s \in Scorers, isAdd \in BOOLEAN, id \in Users : UpdateScore(s, isAdd, id)
    \/ \E s \in Scorers : ScoreGot(s)
    \/ \E s \in Scorers : ScoreSet(s)

\* ------------------------------------------------------ Aggregate queries
\* The commands getAllStats reports on (those with display names).
Commands == {"help", "vote"}

\* No aggregate query has been made; the clock reads 0.
AggStart ==
    /\ clock = 0
    /\ apc = [a \in Aggs |-> "idle"]
    /\ aKind = [a \in Aggs |-> "scores"]
    /\ aSubjects = [a \in Aggs |-> {}]
    /\ aNow = [a \in Aggs |-> 0]
    /\ aWaiting = [a \in Aggs |-> {}]
    /\ aResults = [a \in Aggs |-> <<>>]
    /\ aCb = [a \in Aggs |-> <<>>]
    /\ aEarly = [a \in Aggs |-> 0]

AggInit == AggStart /\ asyncTimeout \in 1..MaxTime

\* No aggregate query is made in the other specifications.
AggIdle == AggStart /\ asyncTimeout = 1

\* The fan-out common to getAllScores and getAllStats: `now` is taken and one
\* read per subject is issued.  Nothing else happens in the call itself.
FanOut(a, kind, subjects) ==
    /\ apc[a] = "idle"
    /\ \A q \in Aggs : q < a => apc[q] # "idle"
    /\ apc' = [apc EXCEPT ![a] = IF subjects = {} THEN "done" ELSE "running"]
    /\ aKind' = [aKind EXCEPT ![a] = kind]
    /\ aSubjects' = [aSubjects EXCEPT ![a] = subjects]
    /\ aNow' = [aNow EXCEPT ![a] = clock]
    /\ aWaiting' = [aWaiting EXCEPT ![a] = subjects]
    /\ UNCHANGED <<notAggVars, clock, asyncTimeout, aResults, aCb, aEarly>>

\* getAllScores(groupInfo, callback): the subjects are the keys of groupInfo.names.
GetAllScores(a, names) == FanOut(a, "scores", DOMAIN names)

\* getAllStats(callback): the subjects are the displayed commands.
GetAllStats(a, names) == FanOut(a, "stats", names)

\* updateResults(value): the value is pushed, and the callback is invoked when
\* the list is complete or, at this arrival, the timeout has elapsed.  The
\* callback gets the list itself; its content at the invocation is recorded.
UpdateResults(a, value) ==
    LET results == Append(aResults[a], value)
        success == Len(results) = Cardinality(aSubjects[a])
        elapsed == clock - aNow[a]
    IN  /\ aResults' = [aResults EXCEPT ![a] = results]
        /\ aEarly' = [aEarly EXCEPT ![a] = IF elapsed < asyncTimeout THEN @ + 1 ELSE @]
        /\ aCb' = [aCb EXCEPT ![a] =
                IF success \/ elapsed >= asyncTimeout
                THEN Append(@, [success |-> success, results |-> results,
                                early |-> aEarly'[a]])
                ELSE @]

\* One read of the fan-out has called back and no other is outstanding.
AggArrived(a, m) ==
    /\ aWaiting' = [aWaiting EXCEPT ![a] = @ \ {m}]
    /\ apc' = [apc EXCEPT ![a] = IF aWaiting[a] = {m} THEN "done" ELSE "running"]

\* getScore(m, ...) calls back: with or without an error an entry for the
\* member is pushed (its score is not modelled).
GotScore(a, m) ==
    /\ apc[a] = "running"
    /\ aKind[a] = "scores"
    /\ m \in aWaiting[a]
    /\ AggArrived(a, m)
    /\ UpdateResults(a, m)
    /\ UNCHANGED <<notAggVars, clock, asyncTimeout, aKind, aSubjects, aNow>>

\* getStats(key, true, ...) calls back: an entry is pushed only without an error.
GotStats(a, key) ==
    /\ apc[a] = "running"
    /\ aKind[a] = "stats"
    /\ key \in aWaiting[a]
    /\ AggArrived(a, key)
    /\ \/ UpdateResults(a, key)
       \/ UNCHANGED <<aResults, aCb, aEarly>>
    /\ UNCHANGED <<notAggVars, clock, asyncTimeout, aKind, aSubjects, aNow>>

\* Time passes.
Tick ==
    /\ clock < MaxTime
    /\ clock' = clock + 1
    /\ UNCHANGED <<notAggVars, asyncTimeout, apc, aKind, aSubjects, aNow, aWaiting,
                   aResults, aCb, aEarly>>

NextAgg ==
    \/ \E a \in Aggs, ids \in SUBSET Users : GetAllScores(a, [id \in ids |-> FirstName(id)])
    \/ \E a \in Aggs, names \in SUBSET Commands : GetAllStats(a, names)
    \/ \E a \in Aggs, m \in Users : GotScore(a, m)
    \/ \E a \in Aggs, key \in Commands : GotStats(a, key)
    \/ Tick

\* ---------------------------------------------------------- Usage stats
\* `parseInt(count) || 0` of a stored counter.
ParseIntOrZero(val) == IF val # NoValue THEN ParseInt(val) ELSE 0

\* `${JSON.stringify(stats.record)}`
RecordText(record) == <<"json", record>>

\* `JSON.parse(record) || []`
ParseRecord(val) == IF val # NoValue THEN val[2] ELSE <<>>

\* No usage was counted yet and no updateStats is running.
StatInit ==
    /\ usageAll = NoValue
    /\ usageTotal = [c \in Commands |-> NoValue]
    /\ usageRecord = [c \in Commands |-> NoValue]
    /\ tpc = [k \in Staters |-> "idle"]
    /\ tCmd = [k \in Staters |-> "help"]
    /\ tUser = [k \in Staters |-> "u1"]
    /\ tCount = [k \in Staters |-> NoValue]
    /\ tStats = [k \in Staters |-> EmptyObj]
    /\ tErrs = [k \in Staters |-> <<>>]
    /\ tCb = [k \in Staters |-> <<>>]
    /\ statCalls = 0
    /\ tReadFailed = [k \in Staters |-> FALSE]
    /\ tBefore = [k \in Staters |-> EmptyObj]
    /\ tOverlap = [k \in Staters |-> FALSE]

StatRunning == {"getCount", "getTotal", "getRecord", "setTotal", "setCount", "setRecord"}

\* The locals of a stats task are dropped when it ends.
StatEnd(k) ==
    /\ tpc' = [tpc EXCEPT ![k] = "done"]
    /\ tCount' = [tCount EXCEPT ![k] = NoValue]
    /\ tStats' = [tStats EXCEPT ![k] = EmptyObj]
    /\ tErrs' = [tErrs EXCEPT ![k] = <<>>]

\* updateStats(command, senderID, callback): getStats(command, true, ...) issues
\* the read of usage_total_<command>.
UpdateStats(k, command, senderID) ==
    /\ tpc[k] \in {"idle", "done"}
    /\ \A q \in Staters : q < k => tpc[q] \in StatRunning
    /\ statCalls < MaxStatCalls
    /\ statCalls' = statCalls + 1
    /\ tpc' = [tpc EXCEPT ![k] = "getCount"]
    /\ tCmd' = [tCmd EXCEPT ![k] = command]
    /\ tUser' = [tUser EXCEPT ![k] = senderID]
    /\ tCb' = [tCb EXCEPT ![k] = <<>>]
    /\ tReadFailed' = [tReadFailed EXCEPT ![k] = FALSE]
    /\ tBefore' = [tBefore EXCEPT ![k] =
            [all |-> usageAll, total |-> usageTotal, record |-> usageRecord]]
    /\ tOverlap' = [q \in Staters |->
            IF q = k THEN \E o \in Staters \ {k} : tpc[o] \in StatRunning
            ELSE tOverlap[q] \/ tpc[q] \in StatRunning]
    /\ UNCHANGED <<notStatVars, usageAll, usageTotal, usageRecord, tCount, tStats, tErrs>>

\* getStats: the read of usage_total_<command> calls back.  Its error is not
\* looked at (the inner callback's `err` hides it): the read of usage_total_all
\* is issued with `count` as delivered, undefined after an error.
StatGotCount(k) ==
    /\ tpc[k] = "getCount"
    /\ \E outcome \in StoreOutcomes :
        /\ tCount' = [tCount EXCEPT ![k] =
                IF outcome = "ok" THEN usageTotal[tCmd[k]] ELSE NoValue]
        /\ tReadFailed' = [tReadFailed EXCEPT ![k] = outcome # "ok"]
    /\ tpc' = [tpc EXCEPT ![k] = "getTotal"]
    /\ UNCHANGED <<notStatVars, usageAll, usageTotal, usageRecord, tCmd, tUser, tStats, tErrs,
                   tCb, statCalls, tBefore, tOverlap>>

\* getStats: the read of usage_total_all calls back: the two counters are
\* parsed and the record is asked for, or the error goes to the callback.
StatGotTotal(k) ==
    /\ tpc[k] = "getTotal"
    /\ \E outcome \in StoreOutcomes :
        IF outcome = "ok"
        THEN /\ tStats' = [tStats EXCEPT ![k] =
                    [count |-> ParseIntOrZero(tCount[k]), total |-> ParseIntOrZero(usageAll)]]
             /\ tpc' = [tpc EXCEPT ![k] = "getRecord"]
             /\ UNCHANGED <<tCount, tErrs, tCb, tReadFailed>>
        ELSE /\ tCb' = [tCb EXCEPT ![k] = Append(@, <<"err">>)]
             /\ tReadFailed' = [tReadFailed EXCEPT ![k] = TRUE]
             /\ StatEnd(k)
    /\ UNCHANGED <<notStatVars, usageAll, usageTotal, usageRecord, tCmd, tUser, statCalls,
                   tBefore, tOverlap>>

\* getStats: the read of usage_record_<command> calls back.  Without an error
\* updateStats counts the use, appends {at, user} (the time is the number of the
\* call) and setStats issues the write of usage_total_all.
StatGotRecord(k) ==
    /\ tpc[k] = "getRecord"
    /\ \E outcome \in StoreOutcomes :
        IF outcome = "ok"
        THEN /\ tStats' = [tStats EXCEPT ![k] =
                    [count |-> @.count + 1, total |-> @.total + 1,
                     record |-> Append(ParseRecord(usageRecord[tCmd[k]]),
                                       [at |-> statCalls, user |-> tUser[k]])]]
             /\ tpc' = [tpc EXCEPT ![k] = "setTotal"]
             /\ UNCHANGED <<tCount, tErrs, tCb, tReadFailed>>
        ELSE /\ tCb' = [tCb EXCEPT ![k] = Append(@, <<"err">>)]
             /\ tReadFailed' = [tReadFailed EXCEPT ![k] = TRUE]
             /\ StatEnd(k)
    /\ UNCHANGED <<notStatVars, usageAll, usageTotal, usageRecord, tCmd, tUser, statCalls,
                   tBefore, tOverlap>>

\* setStats: the write of usage_total_all calls back; usage_total_<command> is
\* written next, whatever the outcome.
StatSetTotal(k) ==
    /\ tpc[k] = "setTotal"
    /\ \E outcome \in StoreOutcomes :
        /\ usageAll' = IF outcome = "ok" THEN ToText(tStats[k].total) ELSE usageAll
        /\ tErrs' = [tErrs EXCEPT ![k] = <<IF outcome = "ok" THEN "null" ELSE "err">>]
    /\ tpc' = [tpc EXCEPT ![k] = "setCount"]
    /\ UNCHANGED <<notStatVars, usageTotal, usageRecord, tCmd, tUser, tCount, tStats, tCb,
                   statCalls, tReadFailed, tBefore, tOverlap>>

\* setStats: the write of usage_total_<command> calls back; the record is
\* written next.
StatSetCount(k) ==
    /\ tpc[k] = "setCount"
    /\ \E outcome \in StoreOutcomes :
        /\ usageTotal' = IF outcome = "ok"
                         THEN [usageTotal EXCEPT ![tCmd[k]] = ToText(tStats[k].count)]
                         ELSE usageTotal
        /\ tErrs' = [tErrs EXCEPT ![k] = Append(@, IF outcome = "ok" THEN "null" ELSE "err")]
    /\ tpc' = [tpc EXCEPT ![k] = "setRecord"]
    /\ UNCHANGED <<notStatVars, usageAll, usageRecord, tCmd, tUser, tCount, tStats, tCb,
                   statCalls, tReadFailed, tBefore, tOverlap>>

\* setStats: the write of usage_record_<command> calls back:
\* callback(t_err, c_err, u_err).
StatSetRecord(k) ==
    /\ tpc[k] = "setRecord"
    /\ \E outcome \in StoreOutcomes :
        /\ usageRecord' = IF outcome = "ok"
                          THEN [usageRecord EXCEPT ![tCmd[k]] = RecordText(tStats[k].record)]
                          ELSE usageRecord
        /\ tCb' = [tCb EXCEPT ![k] =
                Append(@, Append(tErrs[k], IF outcome = "ok" THEN "null" ELSE "err"))]
    /\ StatEnd(k)
    /\ UNCHANGED <<notStatVars, usageAll, usageTotal, tCmd, tUser, statCalls, tReadFailed,
                   tBefore, tOverlap>>

NextStat ==
    \/ \E k \in Staters, c \in Commands, id \in Users : UpdateStats(k, c, id)
    \/ \E k \in Staters : StatGotCount(k)
    \/ \E k \in Staters : StatGotTotal(k)
    \/ \E k \in Staters : StatGotRecord(k)
    \/ \E k \in Staters : StatSetTotal(k)
    \/ \E k \in Staters : StatSetCount(k)
    \/ \E k \in Staters : StatSetRecord(k)

\* ------------------------------------------------------------- Events
\* Mutant: the title is used as it was typed.
KeyTitleAsTyped(title) == title

\* `title.trim().toLowerCase()`
KeyTitle(title) == ToLowerCase(Trim(title))

\* The titles and time texts the commands are given: a time chrono cannot
\* parse, one too near for an early reminder, and one far enough.
Titles == {" Party"}

EventKeys == {"party"}

AtTexts == {"gibberish", "soon", "later"}

\* A record as a refresh registers it, with the events stored since.
RegisteredInfo(events) ==
    LET data == CHOOSE d \in ThreadData : d.isGroup
    IN  SetField(MergeUserData(MergeThreadData(Absent, "t1", data, TRUE),
                               UserData(data.participantIDs)),
                 "events", events)

\* The bot has just sent a message into the thread of `record`: the update of
\* lastBotMessageID waits for its timer and the thread is locked.
MessageIdPending(record) ==
    LET first(x, idle) == [u \in Updaters |-> IF u = 1 THEN x ELSE idle]
    IN  /\ lockedThreads = <<record["threadId"]>>
        /\ upc = first("timer", "idle")
        /\ uInfo = first(SetField(record, "lastBotMessageID", "m1"), EmptyObj)
        /\ uKey = first("lastBotMessageID", "none")
        /\ uValue = first("m1", EmptyObj)
        /\ uBlob = [u \in Updaters |-> AbsentBlob]
        /\ uCb = [u \in Updaters |-> <<>>]
        /\ uSnap = first(record, EmptyObj)
        /\ uLost = [u \in Updaters |-> EmptyObj]

\* minfo.messageID of the message a command sends: the provider gives it an id
\* that no earlier message has.
NewMessageID == "m2"

\* Thread t1 is registered, with no event or with u1's event `party` stored,
\* and with or without an update of lastBotMessageID under way.
EventInit ==
    /\ \E events \in {EmptyObj,
                      [party |-> StringifyEvent(NewEvent("party", "u1", "t1", FALSE))]} :
            /\ groups = Stringify([t \in {"t1"} |-> RegisteredInfo(events)])
            /\ UpdIdle \/ MessageIdPending(RegisteredInfo(events))
    /\ RefIdle
    /\ dbFailSilently = FALSE

\* No command is running.
EvtIdle ==
    /\ epc = [e \in EventTasks |-> "idle"]
    /\ eKind = [e \in EventTasks |-> "add"]
    /\ eTitle = [e \in EventTasks |-> "party"]
    /\ eSender = [e \in EventTasks |-> "u1"]
    /\ eEarly = [e \in EventTasks |-> FALSE]
    /\ eConfirm = [e \in EventTasks |-> TRUE]
    /\ eInfo = [e \in EventTasks |-> EmptyObj]
    /\ eMinfo = [e \in EventTasks |-> FALSE]
    /\ eSnap = [e \in EventTasks |-> EmptyObj]
    /\ eOutcome = [e \in EventTasks |-> "none"]
    /\ eMsgs = [e \in EventTasks |-> <<>>]
    /\ uFrom = [u \in Updaters |-> 0]

updaterCall == <<upc, uInfo, uKey, uValue, uSnap, uCb, lockedThreads, uFrom>>

\* The updater slot a new setGroupProperty call runs in.
FreeUpdater ==
    CHOOSE q \in Updaters :
        upc[q] \in Finished /\ \A o \in Updaters : o < q => upc[o] \notin Finished

\* setGroupProperty(key, value, info, ...) called by command e: nothing at all
\* when the thread is locked, else info[key] = value, the lock and the timer.
CallSetGroupProperty(e, key, value, info, snap) ==
    IF ~Includes(lockedThreads, info["threadId"])
    THEN /\ upc' = [upc EXCEPT ![FreeUpdater] = "timer"]
         /\ uInfo' = [uInfo EXCEPT ![FreeUpdater] = SetField(info, key, value)]
         /\ uKey' = [uKey EXCEPT ![FreeUpdater] = key]
         /\ uValue' = [uValue EXCEPT ![FreeUpdater] = value]
         /\ uSnap' = [uSnap EXCEPT ![FreeUpdater] = snap]
         /\ uCb' = [uCb EXCEPT ![FreeUpdater] = <<>>]
         /\ lockedThreads' = Append(lockedThreads, info["threadId"])
         /\ uFrom' = [uFrom EXCEPT ![FreeUpdater] = e]
    ELSE UNCHANGED updaterCall

\* sendMessage / sendError(m, threadId, ...): api.sendMessage is asked.
SendMessage(e, kind) ==
    /\ eMsgs' = [eMsgs EXCEPT ![e] = Append(@, kind)]
    /\ epc' = [epc EXCEPT ![e] = "sending"]

\* A command handler is given the thread's record.
EvtGotInfo(e) ==
    /\ epc[e] = "idle"
    /\ \A q \in EventTasks : q < e => epc[q] # "idle"
    /\ GroupOf(ParseGroups(groups), "t1") # Absent
    /\ eInfo' = [eInfo EXCEPT ![e] = GroupOf(ParseGroups(groups), "t1")]
    /\ eSnap' = [eSnap EXCEPT ![e] = GroupOf(ParseGroups(groups), "t1")]
    /\ epc' = [epc EXCEPT ![e] = "haveInfo"]
    /\ UNCHANGED <<groupVars, ledgerVars, eKind, eTitle, eSender, eEarly, eConfirm, eMinfo,
                   eOutcome, eMsgs, uFrom>>

\* addEvent(title, at, sender, groupInfo, threadId)
AddEvent(e, title, at, sender) ==
    /\ epc[e] = "haveInfo"
    /\ eKind' = [eKind EXCEPT ![e] = "add"]
    /\ eTitle' = [eTitle EXCEPT ![e] = title]
    /\ eSender' = [eSender EXCEPT ![e] = sender]
    /\ eEarly' = [eEarly EXCEPT ![e] = at = "later"]
    /\ IF Has(eInfo[e]["events"], KeyTitle(title))
       THEN /\ SendMessage(e, "error")
            /\ eOutcome' = [eOutcome EXCEPT ![e] = "duplicate"]
       ELSE IF at = "gibberish"
       THEN /\ SendMessage(e, "error")
            /\ eOutcome' = [eOutcome EXCEPT ![e] = "badTime"]
       ELSE /\ SendMessage(e, "created")
            /\ eOutcome' = [eOutcome EXCEPT ![e] = "sent"]
    /\ UNCHANGED <<groupVars, ledgerVars, eConfirm, eInfo, eMinfo, eSnap, uFrom>>

\* deleteEvent(keyTitle, sender, groupInfo, threadId, sendConfirmation).  The
\* branch for an unknown key reads `rawTitle`, which is not defined there: the
\* call throws before any message is sent.
DeleteEvent(e, keyTitle, sender, sendConfirmation) ==
    /\ epc[e] = "haveInfo"
    /\ eKind' = [eKind EXCEPT ![e] = "delete"]
    /\ eTitle' = [eTitle EXCEPT ![e] = keyTitle]
    /\ eSender' = [eSender EXCEPT ![e] = sender]
    /\ eConfirm' = [eConfirm EXCEPT ![e] = sendConfirmation]
    /\ IF ~Has(eInfo[e]["events"], keyTitle)
       THEN /\ eOutcome' = [eOutcome EXCEPT ![e] = "threw"]
            /\ epc' = [epc EXCEPT ![e] = "done"]
            /\ UNCHANGED <<eInfo, eMsgs, updaterCall>>
       ELSE IF eInfo[e]["events"][keyTitle]["owner"] # sender
       THEN /\ SendMessage(e, "error")
            /\ eOutcome' = [eOutcome EXCEPT ![e] = "notOwner"]
            /\ UNCHANGED <<eInfo, updaterCall>>
       ELSE LET events == DelField(eInfo[e]["events"], keyTitle)
                info == SetField(eInfo[e], "events", events)
                locked == Includes(lockedThreads, info["threadId"])
            IN  /\ eInfo' = [eInfo EXCEPT ![e] = info]
                /\ CallSetGroupProperty(e, "events", events, info, eSnap[e])
                /\ eOutcome' = [eOutcome EXCEPT ![e] = IF locked THEN "dropped" ELSE "accepted"]
                /\ epc' = [epc EXCEPT ![e] = IF locked THEN "done" ELSE "waitPersist"]
                /\ eMsgs' = eMsgs
    /\ UNCHANGED <<ledgerVars, groups, dbFailSilently, calls, refVars, uBlob, uLost, started,
                   lastSet, eEarly, eMinfo, eSnap>>

\* api.sendMessage calls back: sendMessage hands (err, minfo) to its caller's
\* callback, and then asks the store for the thread's record.  addEvent's
\* callback, when its confirmation was sent, builds the event, puts it into
\* groupInfo.events and calls setGroupProperty.
EvtSent(e) ==
    /\ epc[e] = "sending"
    /\ \E outcome \in {"ok", "fail"} :
        /\ eMinfo' = [eMinfo EXCEPT ![e] = outcome = "ok"]
        /\ IF eOutcome[e] = "sent" /\ outcome = "ok"
           THEN LET keyTitle == KeyTitle(eTitle[e])
                    event == NewEvent(keyTitle, eSender[e], eInfo[e]["threadId"], eEarly[e])
                    events == SetField(eInfo[e]["events"], keyTitle, event)
                    info == SetField(eInfo[e], "events", events)
                IN  /\ eInfo' = [eInfo EXCEPT ![e] = info]
                    /\ CallSetGroupProperty(e, "events", events, info, eSnap[e])
                    /\ eOutcome' = [eOutcome EXCEPT ![e] =
                            IF Includes(lockedThreads, info["threadId"])
                            THEN "createdDropped" ELSE "created"]
           ELSE /\ eOutcome' = [eOutcome EXCEPT ![e] =
                        IF eOutcome[e] = "sent" THEN "sendFailed" ELSE @]
                /\ UNCHANGED <<eInfo, updaterCall>>
    /\ epc' = [epc EXCEPT ![e] = "bookkeeping"]
    /\ UNCHANGED <<ledgerVars, groups, dbFailSilently, calls, refVars, uBlob, uLost, started,
                   lastSet, eKind, eTitle, eSender, eEarly, eConfirm, eSnap, eMsgs>>

\* sendMessage's getGroupInfo calls back: the id of the message that was sent
\* is saved with setGroupProperty("lastBotMessageID", ...) on the record read.
EvtBookkeeping(e) ==
    /\ epc[e] = "bookkeeping"
    /\ \E outcome \in StoreOutcomes :
        LET info == IF outcome = "ok"
                    THEN GroupOf(ParseGroups(groups), eInfo[e]["threadId"]) ELSE Absent
        IN  IF eMinfo[e] /\ info # Absent
            THEN CallSetGroupProperty(e, "lastBotMessageID", NewMessageID, info, info)
            ELSE UNCHANGED updaterCall
    /\ epc' = [epc EXCEPT ![e] = "done"]
    /\ UNCHANGED <<ledgerVars, groups, dbFailSilently, calls, refVars, uBlob, uLost, started,
                   lastSet, eKind, eTitle, eSender, eEarly, eConfirm, eInfo, eMinfo, eSnap,
                   eOutcome, eMsgs>>

\* The persist of an update ends.  deleteEvent passed a callback: it reports
\* the error, or confirms the deletion when it was asked to.
EvtSetWrite(u) ==
    /\ UpdSetWriteStep(u)
    /\ IF uFrom[u] \in EventTasks /\ uKey[u] = "events" /\ epc[uFrom[u]] = "waitPersist"
       THEN IF uCb'[u] # <<"null">>
            THEN SendMessage(uFrom[u], "error")
            ELSE IF eConfirm[uFrom[u]]
            THEN SendMessage(uFrom[u], "deleted")
            ELSE /\ epc' = [epc EXCEPT ![uFrom[u]] = "done"]
                 /\ eMsgs' = eMsgs
       ELSE UNCHANGED <<epc, eMsgs>>
    /\ UNCHANGED <<eKind, eTitle, eSender, eEarly, eConfirm, eInfo, eMinfo, eSnap, eOutcome,
                   uFrom>>

NextEvent ==
    \/ \E e \in EventTasks : EvtGotInfo(e)
    \/ \E e \in EventTasks, title \in Titles, at \in AtTexts, sender \in Users :
            AddEvent(e, title, at, sender)
    \/ \E e \in EventTasks, keyTitle \in EventKeys, sender \in Users,
          sendConfirmation \in BOOLEAN : DeleteEvent(e, keyTitle, sender, sendConfirmation)
    \/ \E e \in EventTasks : EvtSent(e)
    \/ \E e \in EventTasks : EvtBookkeeping(e)
    \/ \E u \in Updaters : UpdTimer(u)
    \/ \E u \in Updaters : UpdSetRead(u)
    \/ \E u \in Updaters : EvtSetWrite(u)

\* ------------------------------------------------------- Membership
\* Mutant: the retry test lets one more attempt through.
MayRetryInclusive(currentBuffer, limit) == currentBuffer <= limit

\* `currentBuffer < config.addBufferLimit`
MayRetry(currentBuffer, limit) == currentBuffer < limit

\* Mutant: no id is taken for the bot's.
IsBotNever(userId) == FALSE

\* `userId != config.bot.id`, negated
IsBot(userId) == userId = BotId

\* The errors api.addUserToGroup can report.
ProviderErrors == {"e1", "e2"}

\* The records kick and kickMultiple are given: a private chat, a group the
\* bot is an admin of, and a group it is not an admin of.
KickInfos ==
    LET info(data) == MergeUserData(MergeThreadData(Absent, "t1", data, TRUE),
                                    UserData(data.participantIDs))
        group == info(CHOOSE d \in ThreadData : d.isGroup)
    IN  {info(data) : data \in ThreadData} \cup {SetField(group, "admins", <<"u1">>)}

\* The lists of ids kickMultiple is given.
UserIdLists ==
    {<<>>, <<BotId>>, <<"u1">>, <<BotId, "u1">>, <<"u1", "u2">>, <<"u1", BotId, "u2">>}

NoCall == [op |-> "none", userIds |-> <<>>, isGroup |-> FALSE, botAdmin |-> FALSE]

\* No membership operation has been called.
MemberIdle ==
    /\ addBufferLimit = 0
    /\ dpc = [d \in Adders |-> "idle"]
    /\ dRetry = [d \in Adders |-> TRUE]
    /\ dBuffer = [d \in Adders |-> 0]
    /\ dAttempts = [d \in Adders |-> 0]
    /\ dCb = [d \in Adders |-> <<>>]
    /\ dLastErr = [d \in Adders |-> "null"]
    /\ kpc = [k \in Kickers |-> "idle"]
    /\ kUser = [k \in Kickers |-> "u1"]
    /\ kTime = [k \in Kickers |-> FALSE]
    /\ kHasCb = [k \in Kickers |-> FALSE]
    /\ kCb = [k \in Kickers |-> 0]
    /\ removals = <<>>
    /\ mLast = NoCall
    /\ memberCalls = 0
    /\ refreshCalls = 0
    /\ errorsSent = 0

\* The same, with config.addBufferLimit set to some number of retries.
MemberInit ==
    /\ addBufferLimit \in 0..MaxBufferLimit
    /\ dpc = [d \in Adders |-> "idle"]
    /\ dRetry = [d \in Adders |-> TRUE]
    /\ dBuffer = [d \in Adders |-> 0]
    /\ dAttempts = [d \in Adders |-> 0]
    /\ dCb = [d \in Adders |-> <<>>]
    /\ dLastErr = [d \in Adders |-> "null"]
    /\ kpc = [k \in Kickers |-> "idle"]
    /\ kUser = [k \in Kickers |-> "u1"]
    /\ kTime = [k \in Kickers |-> FALSE]
    /\ kHasCb = [k \in Kickers |-> FALSE]
    /\ kCb = [k \in Kickers |-> 0]
    /\ removals = <<>>
    /\ mLast = NoCall
    /\ memberCalls = 0
    /\ refreshCalls = 0
    /\ errorsSent = 0

FreeAdders == {d \in Adders : dpc[d] \in {"idle", "done"}}

FreeKickers == {k \in Kickers : kpc[k] \in {"idle", "done"}}

\* The n-th free kick slot, in the order of the slots.
NthFreeKicker(n) ==
    CHOOSE k \in FreeKickers : Cardinality({q \in FreeKickers : q < k}) = n - 1

\* addUser(id, info, welcome, callback, retry, currentBuffer = 0) in slot d:
\* api.addUserToGroup is asked for the first time.
StartAdd(d, retry) ==
    /\ dpc' = [dpc EXCEPT ![d] = "adding"]
    /\ dRetry' = [dRetry EXCEPT ![d] = retry]
    /\ dBuffer' = [dBuffer EXCEPT ![d] = 0]
    /\ dAttempts' = [dAttempts EXCEPT ![d] = 1]
    /\ dCb' = [dCb EXCEPT ![d] = <<>>]
    /\ dLastErr' = [dLastErr EXCEPT ![d] = "null"]

\* A caller's addUser(id, info, welcome, callback, retry).
AddUser(d, retry) ==
    /\ d \in FreeAdders
    /\ \A q \in FreeAdders : d <= q
    /\ memberCalls < MaxAddCalls
    /\ memberCalls' = memberCalls + 1
    /\ mLast' = [NoCall EXCEPT !.op = "addUser"]
    /\ StartAdd(d, retry)
    /\ UNCHANGED <<notMemberVars, addBufferLimit, kickVars, refreshCalls, errorsSent>>

\* api.addUserToGroup calls back.  Without an error updateGroupInfo is called
\* (its callback welcomes the user and calls neither addUserToGroup nor the
\* caller's callback) and the caller's callback is invoked; with an error
\* addUser calls itself with currentBuffer + 1, or gives the error to the
\* callback.
AddGot(d) ==
    /\ dpc[d] = "adding"
    /\ \E err \in {"null"} \cup ProviderErrors :
        /\ dLastErr' = [dLastErr EXCEPT ![d] = err]
        /\ IF err = "null"
           THEN /\ refreshCalls' = refreshCalls + 1
                /\ dCb' = [dCb EXCEPT ![d] = Append(@, "null")]
                /\ dpc' = [dpc EXCEPT ![d] = "done"]
                /\ UNCHANGED <<dBuffer, dAttempts>>
           ELSE IF MayRetry(dBuffer[d], addBufferLimit)
           THEN IF dRetry[d]
                THEN /\ dBuffer' = [dBuffer EXCEPT ![d] = @ + 1]
                     /\ dAttempts' = [dAttempts EXCEPT ![d] = @ + 1]
                     /\ UNCHANGED <<dpc, dCb, refreshCalls>>
                ELSE /\ dCb' = [dCb EXCEPT ![d] = Append(@, err)]
                     /\ dpc' = [dpc EXCEPT ![d] = "done"]
                     /\ UNCHANGED <<dBuffer, dAttempts, refreshCalls>>
           ELSE /\ dCb' = [dCb EXCEPT ![d] = Append(@, err)]
                /\ dpc' = [dpc EXCEPT ![d] = "done"]
                /\ UNCHANGED <<dBuffer, dAttempts, refreshCalls>>
    /\ UNCHANGED <<notMemberVars, addBufferLimit, dRetry, kickVars, mLast, memberCalls,
                   errorsSent>>

\* The kicks kickMultiple's loop makes, in order: the ids that are not the
\* bot's, the first of them (callbackset still false) with the callback.
RECURSIVE KickLoop(_, _, _)
KickLoop(userIds, i, callbackset) ==
    IF i > Len(userIds) THEN <<>>
    ELSE IF ~IsBot(userIds[i])
    THEN <<[user |-> userIds[i], cb |-> ~callbackset]>> \o KickLoop(userIds, i + 1, TRUE)
    ELSE KickLoop(userIds, i + 1, callbackset)

\* kick(userId, info, time, callback) for each entry of `kicks`, each in a
\* free slot: api.removeUserFromGroup is asked.
Kicks(kicks, time) ==
    LET slot(i) == NthFreeKicker(i)
        n == Len(kicks)
        at(k) == CHOOSE i \in 1..n : slot(i) = k
        taken == {slot(i) : i \in 1..n}
    IN  /\ kpc' = [k \in Kickers |-> IF k \in taken THEN "removing" ELSE kpc[k]]
        /\ kUser' = [k \in Kickers |-> IF k \in taken THEN kicks[at(k)].user ELSE kUser[k]]
        /\ kTime' = [k \in Kickers |-> IF k \in taken THEN time ELSE kTime[k]]
        /\ kHasCb' = [k \in Kickers |-> IF k \in taken THEN kicks[at(k)].cb ELSE kHasCb[k]]
        /\ kCb' = [k \in Kickers |-> IF k \in taken THEN 0 ELSE kCb[k]]
        /\ removals' = removals \o kicks

\* A caller's kick(userId, info, time, callback): nothing at all for the bot's id.
Kick(userId, info, time, hasCallback) ==
    /\ memberCalls < MaxKickCalls
    /\ FreeKickers # {}
    /\ memberCalls' = memberCalls + 1
    /\ mLast' = [op |-> "kick", userIds |-> <<userId>>, isGroup |-> info["isGroup"],
                 botAdmin |-> \E i \in DOMAIN info["admins"] : info["admins"][i] = BotId]
    /\ IF ~IsBot(userId)
       THEN Kicks(<<[user |-> userId, cb |-> hasCallback]>>, time)
       ELSE UNCHANGED kickVars
    /\ UNCHANGED <<notMemberVars, addBufferLimit, addVars, refreshCalls, errorsSent>>

\* A caller's kickMultiple(userIds, info, time, callback).
KickMultiple(userIds, info, time) ==
    LET botAdmin == \E i \in DOMAIN info["admins"] : info["admins"][i] = BotId
        kicks == KickLoop(userIds, 1, FALSE)
    IN  /\ memberCalls < MaxKickCalls
        /\ Len(kicks) <= Cardinality(FreeKickers)
        /\ memberCalls' = memberCalls + 1
        /\ mLast' = [op |-> "kickMultiple", userIds |-> userIds, isGroup |-> info["isGroup"],
                     botAdmin |-> botAdmin]
        /\ IF ~info["isGroup"] \/ ~botAdmin
           THEN /\ errorsSent' = errorsSent + 1
                /\ UNCHANGED kickVars
           ELSE /\ Kicks(kicks, time)
                /\ errorsSent' = errorsSent
        /\ UNCHANGED <<notMemberVars, addBufferLimit, addVars, refreshCalls>>

\* api.removeUserFromGroup calls back: an error is reported to the thread;
\* otherwise the timer for the user's return is set when a time was given, and
\* updateGroupInfo is called.
KickGot(k) ==
    /\ kpc[k] = "removing"
    /\ \E outcome \in {"ok", "fail"} :
        IF outcome = "fail"
        THEN /\ errorsSent' = errorsSent + 1
             /\ kpc' = [kpc EXCEPT ![k] = "done"]
             /\ refreshCalls' = refreshCalls
        ELSE /\ refreshCalls' = refreshCalls + 1
             /\ kpc' = [kpc EXCEPT ![k] = IF kTime[k] THEN "timer" ELSE "done"]
             /\ errorsSent' = errorsSent
    /\ UNCHANGED <<notMemberVars, addBufferLimit, addVars, kUser, kTime, kHasCb, kCb, removals,
                   mLast, memberCalls>>

\* The timer of a timed kick fires: addUser(userId, info, false), then callback().
KickTimer(k, d) ==
    /\ kpc[k] = "timer"
    /\ d \in FreeAdders
    /\ \A q \in FreeAdders : d <= q
    /\ StartAdd(d, TRUE)
    /\ kCb' = [kCb EXCEPT ![k] = @ + 1]
    /\ kpc' = [kpc EXCEPT ![k] = "done"]
    /\ UNCHANGED <<notMemberVars, addBufferLimit, kUser, kTime, kHasCb, removals, mLast,
                   memberCalls, refreshCalls, errorsSent>>

NextAdd ==
    \/ \E d \in Adders, retry \in BOOLEAN : AddUser(d, retry)
    \/ \E d \in Adders : AddGot(d)

NextKick ==
    \/ \E d \in Adders : AddGot(d)
    \/ \E userId \in Users \cup {BotId}, info \in KickInfos, time \in BOOLEAN,
          hasCallback \in BOOLEAN : Kick(userId, info, time, hasCallback)
    \/ \E userIds \in UserIdLists, info \in KickInfos, time \in BOOLEAN :
            KickMultiple(userIds, info, time)
    \/ \E k \in Kickers : KickGot(k)
    \/ \E k \in Kickers, d \in Adders : KickTimer(k, d)

\* ------------------------------------------------------- Two threads
\* Two registered threads whose records are written by refreshes and by
\* property updates.
ThreadPair == {"t1", "t2"}

RegisteredAs(threadId) == SetField(RegisteredInfo(EmptyObj), "threadId", threadId)

PairInit ==
    /\ groups = Stringify([t \in ThreadPair |-> RegisteredAs(t)])
    /\ TasksIdle
    /\ dbFailSilently = FALSE

NextPair ==
    \/ \E r \in Refreshers, t \in ThreadPair : RefGotInfo(r, t)
    \/ \E r \in Refreshers : RefGotOwner(r)
    \/ \E r \in Refreshers : RefThreadInfo(r)
    \/ \E r \in Refreshers : RefUserInfo(r)
    \/ \E r \in Refreshers : RefSetRead(r)
    \/ \E r \in Refreshers : RefSetWrite(r)
    \/ \E u \in Updaters, t \in ThreadPair : UpdGotInfo(u, t)
    \/ \E u \in Updaters : SetGroupProperty(u)
    \/ \E u \in Updaters : UpdTimer(u)
    \/ \E u \in Updaters : UpdSetRead(u)
    \/ \E u \in Updaters : UpdSetWrite(u)

Init == GroupInit /\ ScoreIdle /\ AggIdle /\ StatInit /\ EvtIdle /\ MemberIdle

InitScore == GroupIdle /\ ScoreInit /\ AggIdle /\ StatInit /\ EvtIdle /\ MemberIdle

InitAgg == GroupIdle /\ ScoreIdle /\ AggInit /\ StatInit /\ EvtIdle /\ MemberIdle

InitSilent == SilentInit /\ ScoreIdle /\ AggIdle /\ StatInit /\ EvtIdle /\ MemberIdle

InitStat == GroupIdle /\ ScoreIdle /\ AggIdle /\ StatInit /\ EvtIdle /\ MemberIdle

InitEvent == EventInit /\ ScoreIdle /\ AggIdle /\ StatInit /\ EvtIdle /\ MemberIdle

Spec == Init /\ [][Next]_vars

SpecScore == InitScore /\ [][NextScore]_vars

SpecAgg == InitAgg /\ [][NextAgg]_vars

SpecSilent == InitSilent /\ [][Next]_vars

SpecStat == InitStat /\ [][NextStat]_vars

SpecEvent == InitEvent /\ [][NextEvent]_vars

InitPair == PairInit /\ ScoreIdle /\ AggIdle /\ StatInit /\ EvtIdle /\ MemberIdle

SpecPair == InitPair /\ [][NextPair]_vars

InitMember == GroupIdle /\ ScoreIdle /\ AggIdle /\ StatInit /\ EvtIdle /\ MemberInit

SpecAdd == InitMember /\ [][NextAdd]_vars

\* The provider answers every request.
SpecAddFair == SpecAdd /\ WF_vars(NextAdd)

SpecKick == InitMember /\ [][NextKick]_vars

\* Every callback that is outstanding is eventually delivered and time goes on.
SpecAggFair == SpecAgg /\ WF_vars(NextAgg)

\* ================================================================ claims
Range(f) == {f[x] : x \in DOMAIN f}

\* The positions of an updater whose persist is still to come.
Pending == {"timer", "setRead", "setWrite"}

PendingOn(threadId) ==
    {u \in Updaters : upc[u] \in Pending /\ uInfo[u]["threadId"] = threadId}

\* The record stored under threadId, as getGroupInfo would deliver it.
Stored(threadId) == GroupOf(ParseGroups(groups), threadId)

\* C1: a setGroupProperty call on an unlocked thread sets record[key] = value,
\* locks the thread and, once its persist goes through, the store holds the whole
\* record (key = value included) under the thread; a call on a locked thread is
\* dropped: it is not queued behind the pending one (at most one persist is pending
\* per thread), and its callback is never invoked, with or without an error.
C1_UnlockedPersistsLockedDropped ==
    /\ \A u \in Updaters : upc[u] \in Pending =>
            /\ uInfo[u][uKey[u]] = uValue[u]
            /\ uInfo[u]["threadId"] \in Range(lockedThreads)
    /\ \A u \in Updaters : upc[u] = "setWrite" =>
            GroupOf(uBlob[u].val, uInfo[u]["threadId"]) = StringifyInfo(uInfo[u])
    /\ lastSet.by = "updater" =>
            /\ Stored(lastSet.threadId) = StringifyInfo(lastSet.info)
            /\ Has(lastSet.info, lastSet.key)
    /\ \A t \in Threads : Cardinality(PendingOn(t)) <= 1
    /\ \A u \in Updaters : upc[u] = "dropped" => uCb[u] = <<>>

\* C1 witness: one call was dropped at the lock and the accepted one has persisted.
C1_Witness ==
    /\ lastSet.by = "updater"
    /\ \E u \in Updaters : upc[u] = "dropped"
    /\ \E u \in Updaters : upc[u] = "done" /\ uCb[u] = <<"null">>

\* C2 (as claimed): once no updater has a step left, no thread is locked, and every
\* updater that was accepted has invoked its callback exactly once.
C2_LockAlwaysReleased ==
    /\ (\A u \in Updaters : upc[u] \notin Pending) => lockedThreads = <<>>
    /\ \A u \in Updaters : upc[u] \in {"done", "hung"} => Len(uCb[u]) = 1

\* C3: the lock does not order the refresher: when an updater's persist follows a
\* refresh that stored the thread's record during the updater's settle delay, the
\* stored record is, in every field but the updated key, the copy the updater read
\* before the delay, so whatever the refresh merged is gone.
C3_RefreshDuringDelayIsOverwritten ==
    (lastSet.by = "updater" /\ lastSet.lost # Absent) =>
        /\ DOMAIN Stored(lastSet.threadId) \ {lastSet.key} = DOMAIN lastSet.snap \ {lastSet.key}
        /\ \A f \in DOMAIN lastSet.snap \ {lastSet.key} :
                Stored(lastSet.threadId)[f] = lastSet.snap[f]

\* C3 witness: the refresh stored other members than the updater had read, and the
\* updater's persist has put the old members back.
C3_Witness ==
    /\ lastSet.by = "updater"
    /\ lastSet.lost # Absent
    /\ Has(lastSet.lost, "members")
    /\ Has(Stored(lastSet.threadId), "members")
    /\ lastSet.lost["members"] # Stored(lastSet.threadId)["members"]

\* The bot is no member of the record: not a value of members, not a key of names.
BotNoMember(info) ==
    /\ Has(info, "members") => BotId \notin Range(info["members"])
    /\ Has(info, "names") => BotId \notin DOMAIN info["names"]

\* C4 (as claimed): after a refresh that ended without an error the bot's id is
\* absent from the record's members, names and admins.
C4_BotAbsentEverywhere ==
    lastSet.by = "refresher" =>
        /\ BotNoMember(lastSet.info)
        /\ BotId \notin Range(lastSet.info["admins"])

\* C4 (amended): after a refresh that ended without an error, and in every stored
\* record, the bot's id is absent from members and names; admins is the provider's
\* list of admin ids as it came.
C4_BotAbsentFromMembers ==
    /\ lastSet.by = "refresher" => BotNoMember(lastSet.info)
    /\ \A t \in DOMAIN ParseGroups(groups) : BotNoMember(Stored(t))
    /\ \A r \in Refreshers : rpc[r] \in {"userInfo", "setRead", "setWrite"} =>
            rInfo[r]["admins"] = AdminIds(rData[r])

\* C4 witness: a refresh of a thread the bot is an admin of has ended without error.
C4_Witness ==
    /\ lastSet.by = "refresher"
    /\ Has(lastSet.info, "members")
    /\ BotId \in Range(lastSet.info["admins"])

\* C5 (as claimed): in every stored record userRegExp is the pattern of the keys of
\* members and the values of aliases.
C5_RegExpCoversMembersAndAliases ==
    \A t \in DOMAIN ParseGroups(groups) :
        (Has(Stored(t), "members") /\ Has(Stored(t), "userRegExp")) =>
            Stored(t)["userRegExp"] =
                getRegexFromMembers(DOMAIN Stored(t)["members"] \cup Range(Stored(t)["aliases"]))

\* C6: when api.getThreadInfo delivers no data the refresh ends there: that step
\* leaves the stored mapping as it is, the task has issued no store write and
\* issues none later, and its callback has been invoked once, with the error.
C6_NoDataAbortsRefresh ==
    [][\A r \in Refreshers :
        /\ rNoData'[r] => (rpc'[r] = "done" /\ rSets'[r] = 0 /\ rCb'[r] = <<"err">>)
        /\ (rNoData'[r] /\ ~rNoData[r]) => groups' = groups]_vars

\* C6 witness: the refresh of a registered thread was aborted.
C6_Witness ==
    \E r \in Refreshers : rNoData[r] /\ rpc[r] = "done" /\ Stored("t1") # Absent

OneTimeFields == {"muted", "isGroup", "playlists", "aliases", "pinned", "events"}

\* C7: the record a refresh hands to the store has, for a thread that had a stored
\* record, the muted, isGroup, playlists, aliases, pinned, events and
\* lastBotMessageID it read; only for a thread without one it has muted = true,
\* empty playlists, aliases, pinned and events, and the provider's isGroup.
C7_OneTimeFieldsKept ==
    \A r \in Refreshers : rpc[r] = "setWrite" =>
        LET rec == GroupOf(rBlob[r].val, rThread[r])
            old == rExisting[r]
        IN  IF old # Absent
            THEN \A f \in OneTimeFields \cup {"lastBotMessageID"} :
                    /\ Has(rec, f) <=> Has(old, f)
                    /\ Has(old, f) => rec[f] = old[f]
            ELSE /\ rec["muted"] = TRUE
                 /\ rec["playlists"] = EmptyObj
                 /\ rec["aliases"] = EmptyObj
                 /\ rec["pinned"] = EmptyObj
                 /\ rec["events"] = EmptyObj
                 /\ rec["isGroup"] = rData[r].isGroup
                 /\ ~Has(rec, "lastBotMessageID")

\* C7 witness: a refresh is about to store a record whose one-time fields had been
\* changed since the registration.
C7_Witness ==
    \E r \in Refreshers :
        /\ rpc[r] = "setWrite"
        /\ rExisting[r] # Absent
        /\ \/ rExisting[r]["aliases"] # EmptyObj
           \/ rExisting[r]["pinned"] # EmptyObj
           \/ rExisting[r]["events"] # EmptyObj
           \/ Has(rExisting[r], "lastBotMessageID")

\* C8 (as claimed): every setGroupInfo call that has no step left has invoked its
\* callback exactly once (the callers pass it on to theirs), whatever the store did.
C8_CallbackExactlyOnce ==
    /\ \A r \in Refreshers : rpc[r] = "hung" => Len(rCb[r]) = 1
    /\ \A u \in Updaters : upc[u] = "hung" => Len(uCb[u]) = 1

\* C9 (as claimed): after a successful setGroupInfo(r), with no write since,
\* getGroupInfo(r.threadId) delivers a record equal to r in every field; an absent
\* or empty blob is the empty mapping.
C9_RoundTrip ==
    /\ lastSet.by # "none" => Stored(lastSet.threadId) = lastSet.info
    /\ groups.kind \in {"absent", "empty"} => ParseGroups(groups) = EmptyObj

\* The score a task must arrive at: the stored score when its read was served
\* (0 when absent), plus or minus the configured points, 5 when none are configured.
ExpectedScore(s) ==
    LET old == IF sSeen[s] = NoValue THEN 0 ELSE sSeen[s][2]
        pts == IF votePoints = 0 THEN 5 ELSE votePoints
    IN  IF sIsAdd[s] THEN old + pts ELSE old - pts

\* C10: an updateScore whose read and write both succeed stores, and reports to its
\* callback, the stored score (0 when absent) plus the points for isAdd = true and
\* minus the points for isAdd = false, the points being 5 unless configured.
C10_ScoreMovesByPoints ==
    [][\A s \in Scorers :
        (spc[s] = "setScore" /\ spc'[s] = "done" /\ sReadOk[s]
         /\ sCb'[s][Len(sCb'[s])].success) =>
            /\ scores'[sUser[s]] = ToText(ExpectedScore(s))
            /\ sCb'[s] = <<[err |-> "null", success |-> TRUE, newScore |-> ExpectedScore(s)]>>]_vars

\* C10 witness: with the default points and starting from no score, two adds
\* brought the score to 10 and a subtract has brought it back to 5.
C10_Witness ==
    /\ votePoints = 0
    /\ scoreCalls = 3
    /\ \E s \in Scorers :
        /\ spc[s] = "done"
        /\ sReadOk[s]
        /\ ~sIsAdd[s]
        /\ sSeen[s] = ToText(10)
        /\ scores[sUser[s]] = ToText(5)
        /\ sCb[s] = <<[err |-> "null", success |-> TRUE, newScore |-> 5]>>

\* C11 (as claimed): getAllScores over a group of N members reports exactly N
\* entries with success = true when all N reads resolved before the timeout;
\* otherwise it reports, with success = false, the entries that had resolved at
\* the timeout.  (A group without members is left to C19.)
C11_AllOrSubsetAtTimeout ==
    \A a \in Aggs : (aKind[a] = "scores" /\ aSubjects[a] # {}) =>
        LET N == Cardinality(aSubjects[a])
        IN  /\ \A i \in DOMAIN aCb[a] :
                    IF aCb[a][i].success
                    THEN Len(aCb[a][i].results) = N /\ aCb[a][i].early = N
                    ELSE Len(aCb[a][i].results) = aCb[a][i].early
            /\ (apc[a] = "done" /\ aEarly[a] = N) =>
                    aCb[a] = <<[success |-> TRUE, results |-> aResults[a], early |-> N]>>

\* C12 (as claimed): an aggregate query invokes its callback exactly once: never
\* a second time, and once when all the expected results have arrived.
C12_AggregateCallbackOnce ==
    \A a \in Aggs :
        /\ Len(aCb[a]) <= 1
        /\ (apc[a] = "done" /\ aSubjects[a] # {}
            /\ Len(aResults[a]) = Cardinality(aSubjects[a])) => Len(aCb[a]) = 1

\* C19 (as claimed): every aggregate query whose timeout can elapse invokes its
\* callback in the end, also when reads fail and when there is no subject.
C19_AggregateCallsBack ==
    \A a \in Aggs :
        (apc[a] # "idle" /\ aNow[a] + asyncTimeout <= MaxTime) ~> (aCb[a] # <<>>)

\* C16 (as claimed): when a refresh finds no stored record and messaging is
\* suppressed, its bootstrap step makes no provider call at all: no greeting, no
\* nickname change, no mute.
C16_SuppressedMakesNoCall ==
    [][\A r \in Refreshers :
        (rpc[r] = "getOwner" /\ rpc'[r] = "threadInfo" /\ rIsNew'[r] /\ ~rShould'[r]) =>
            calls' = calls]_vars

\* C17 (as claimed): a refresh whose getUserInfo failed is aborted, so no refresh
\* goes on to the persist without the rebuilt members, and no stored record lacks
\* members, names or userRegExp.
C17_UserInfoFailureAborts ==
    /\ \A r \in Refreshers : rpc[r] \in {"setRead", "setWrite"} =>
            /\ Has(rInfo[r], "members")
            /\ Has(rInfo[r], "names")
            /\ Has(rInfo[r], "userRegExp")
    /\ \A t \in DOMAIN ParseGroups(groups) :
            /\ Has(Stored(t), "members")
            /\ Has(Stored(t), "names")
            /\ Has(Stored(t), "userRegExp")

\* The keys of the events stored for a thread.
StoredEvents(blob, threadId) ==
    LET rec == GroupOf(ParseGroups(blob), threadId)
    IN  IF Has(rec, "events") THEN DOMAIN rec["events"] ELSE {}

\* C18 (as claimed): an event leaves the stored record only in the persist of a
\* property update of `events` whose value no longer has the event's key (a
\* deleteEvent by its owner).
C18_EventStaysUntilDeleted ==
    [][\A t \in TaskThreads : \A k \in StoredEvents(groups, t) \ StoredEvents(groups', t) :
        \E u \in Updaters :
            /\ upc[u] = "setWrite" /\ upc'[u] = "done"
            /\ uKey[u] = "events"
            /\ ~Has(uValue[u], k)]_vars

\* C20 (as claimed): whatever refreshes are made of a thread, it is greeted at
\* most once, it gets the closing message at most once, and the owner is told of
\* it at most once.
C20_FirstTimeInitOnce ==
    \A t \in TaskThreads :
        /\ calls[<<"greeting", t>>] <= 1
        /\ calls[<<"ready", t>>] <= 1
        /\ calls[<<"ownerNotice", OwnerId>>] <= 1

\* The usage keys as a completed updateStats(command, user) must leave them.
CountedOnce(k) ==
    LET c == tCmd[k]
        before == tBefore[k]
    IN  /\ usageAll' = ToText(ParseIntOrZero(before.all) + 1)
        /\ usageTotal' = [before.total EXCEPT ![c] = ToText(ParseIntOrZero(@) + 1)]
        /\ \E at \in 1..MaxStatCalls + 1 :
            usageRecord' = [before.record EXCEPT ![c] =
                RecordText(Append(ParseRecord(@), [at |-> at, user |-> tUser[k]]))]

\* An updateStats that overlapped no other and whose reads and writes all
\* succeeded counts the use once.
StatCompletedCounts ==
    [][\A k \in Staters :
        (/\ tpc[k] = "setRecord" /\ tpc'[k] = "done"
         /\ tCb'[k] = <<(<<"null", "null", "null">>)>>
         /\ ~tReadFailed[k] /\ ~tOverlap[k]) => CountedOnce(k)]_vars

\* C15 (as claimed): a completed updateStats(command, user) that overlaps no other
\* adds 1 to usage_total_<command> and to usage_total_all and appends one
\* {at, user} entry to usage_record_<command>, leaving the other commands' keys
\* alone; and an updateStats one of whose store reads failed issues no write.
C15_StatsCountedOrNothingWritten ==
    /\ StatCompletedCounts
    /\ [](\A k \in Staters : tReadFailed[k] => tpc[k] \notin {"setTotal", "setCount", "setRecord"})

\* The commands that were called, and those called with a title that, trimmed
\* and lower-cased, was a key of the events of the record they were given.
CommandCalled(e) == epc[e] \notin {"idle", "haveInfo"}

DuplicateAdds ==
    {e \in EventTasks :
        /\ CommandCalled(e) /\ eKind[e] = "add"
        /\ ToLowerCase(Trim(eTitle[e])) \in DOMAIN eSnap[e]["events"]}

\* The updaters whose mem.set was issued.
WriteIssued == {"setWrite", "done"}

\* C13 (as claimed): addEvent with a title whose normalised form is already a key
\* of the events reports an error, sends no confirmation, leaves the record it was
\* given unchanged, and issues no store write.
C13_DuplicateWritesNothing ==
    \A e \in DuplicateAdds :
        /\ eMsgs[e] = <<"error">>
        /\ eInfo[e] = eSnap[e]
        /\ \A u \in Updaters : uFrom[u] = e => upc[u] \notin WriteIssued

\* C13 (amended): such an addEvent reports an error, sends no confirmation, leaves
\* the record it was given unchanged and makes no update of `events`; the one
\* update it can cause is that of lastBotMessageID for its error message, which
\* writes the stored record back with the events it read.
C13_DuplicateLeavesEvents ==
    \A e \in DuplicateAdds :
        /\ eOutcome[e] = "duplicate"
        /\ eMsgs[e] = <<"error">>
        /\ eInfo[e] = eSnap[e]
        /\ \A u \in Updaters : (uFrom[u] = e /\ upc[u] \in Pending) =>
                /\ uKey[u] = "lastBotMessageID"
                /\ uInfo[u]["events"] = uSnap[u]["events"]
                /\ ToLowerCase(Trim(eTitle[e])) \in DOMAIN uSnap[u]["events"] =>
                        uInfo[u]["events"][ToLowerCase(Trim(eTitle[e]))]
                            = eSnap[e]["events"][ToLowerCase(Trim(eTitle[e]))]

\* C13 witness: an addEvent of " Party" was refused because `party` exists, and
\* the update of lastBotMessageID for its error message is being written.
C13_Witness ==
    \E e \in DuplicateAdds : \E u \in Updaters :
        /\ eTitle[e] = " Party"
        /\ eMsgs[e] = <<"error">>
        /\ uFrom[u] = e
        /\ upc[u] = "setWrite"

\* The deleteEvent calls for an existing key, by the event's owner or not.
Deletes(byOwner) ==
    {e \in EventTasks :
        /\ CommandCalled(e) /\ eKind[e] = "delete"
        /\ eTitle[e] \in DOMAIN eSnap[e]["events"]
        /\ (eSnap[e]["events"][eTitle[e]]["owner"] = eSender[e]) = byOwner}

\* C14 (as claimed): deleteEvent of an existing event by someone else reports an
\* error and changes neither the record nor the store; by the owner it removes the
\* key in the record and its update of `events` is accepted and, unless it is still
\* under way, has been carried through to its callback.
C14_DeleteOnlyByOwner ==
    /\ \A e \in Deletes(FALSE) :
            /\ eMsgs[e] = <<"error">>
            /\ eInfo[e] = eSnap[e]
            /\ \A u \in Updaters : uFrom[u] = e => upc[u] \notin WriteIssued
    /\ \A e \in Deletes(TRUE) :
            /\ ~Has(eInfo[e]["events"], eTitle[e])
            /\ eOutcome[e] = "accepted"
            /\ epc[e] = "waitPersist" =>
                    \E u \in Updaters : uFrom[u] = e /\ upc[u] \in Pending

\* No command has a step left and no property update is pending: nothing more
\* will happen to the store.
EvtQuiet ==
    /\ \A e \in EventTasks : epc[e] \in {"idle", "done"}
    /\ \A u \in Updaters : upc[u] \notin Pending

\* C21 (as claimed): once addEvent's confirmation has been sent, the event is
\* eventually stored under its normalised key in the thread's record, whatever
\* other property update of the thread is pending: when nothing is left to
\* happen, it is there.
C21_CreatedEventStored ==
    \A e \in EventTasks :
        (EvtQuiet /\ eOutcome[e] \in {"created", "createdDropped"}) =>
            ToLowerCase(Trim(eTitle[e])) \in StoredEvents(groups, "t1")

\* C22 (as claimed): after the bot has sent a message into t1 and every pending
\* operation has completed, the stored lastBotMessageID of t1 is the id of that
\* message, the most recent one, also when an earlier message was sent within
\* the settle delay or the command's own property update was pending.
C22_LastBotMessageIdIsLatest ==
    \A e \in EventTasks :
        (EvtQuiet /\ epc[e] = "done" /\ eMinfo[e]) =>
            /\ Has(Stored("t1"), "lastBotMessageID")
            /\ Stored("t1")["lastBotMessageID"] = NewMessageID

\* C23 (as claimed): a write for thread a never changes the stored record of
\* another thread b, so that each thread's stored record is the one its own
\* last writer persisted.
C23_WriteLeavesOtherThreads ==
    [][\A a \in ThreadPair, b \in ThreadPair :
        (a # b /\ groups' # groups /\ lastSet'.threadId = a) =>
            GroupOf(ParseGroups(groups'), b) = GroupOf(ParseGroups(groups), b)]_vars

\* C24 (as claimed): updateScore invokes its callback exactly once per call; a
\* call whose score read failed invokes it with that error and hands nothing to
\* setScore, so that the stored score stays as it was.
C24_ScoreCallbackOnceNoWriteOnReadError ==
    \A s \in Scorers :
        /\ spc[s] = "done" => Len(sCb[s]) = 1
        /\ spc[s] = "setScore" => sReadOk[s] /\ sCb[s] = <<>>
        /\ (spc[s] = "done" /\ ~sReadOk[s]) =>
                /\ sCb[s][1].err = "err"
                /\ scores[sUser[s]] = sSeen[s]

\* C25 (as claimed): a refresh whose read of the thread's record or of the
\* owner thread's record failed ends there: it makes no provider call and no
\* store write, and it invokes its callback exactly once, with an error that
\* is not null, whichever of the two reads failed.
C25_ReadFailureAbortsWithError ==
    [][\A r \in Refreshers :
        (rpc[r] = "getOwner" /\ rpc'[r] = "done") =>
            /\ calls' = calls
            /\ groups' = groups
            /\ rSets'[r] = 0
            /\ rCb'[r] = <<"err">>]_vars

\* What holds of every addUser call at every moment: the number of requests to
\* the provider, no request after a success, and the one invocation of the
\* callback, with null after a success and with the last error otherwise.
AddUserBounded ==
    \A d \in Adders :
        /\ dAttempts[d] <= addBufferLimit + 1
        /\ (dpc[d] # "idle" /\ ~dRetry[d]) => dAttempts[d] = 1
        /\ dpc[d] = "adding" =>
                /\ dCb[d] = <<>>
                /\ dAttempts[d] > 1 => dLastErr[d] # "null"
        /\ dpc[d] = "done" =>
                /\ dCb[d] = <<dLastErr[d]>>
                /\ (dLastErr[d] # "null" /\ dRetry[d]) => dAttempts[d] = addBufferLimit + 1

\* C26: addUser terminates: it asks the provider at most addBufferLimit + 1
\* times (once when retry is false), stops at the first success, and invokes
\* its callback exactly once, without an error on success and with the last
\* provider error once the attempts are used up.
C26_AddUserTerminates ==
    /\ []AddUserBounded
    /\ \A d \in Adders : (dpc[d] = "adding") ~> (dpc[d] = "done")

\* C26 witness: with a limit of at least one retry, a retrying addUser has used
\* every attempt and has handed the last error to its callback.
C26_Witness ==
    \E d \in Adders :
        /\ addBufferLimit >= 1
        /\ dpc[d] = "done"
        /\ dRetry[d]
        /\ dAttempts[d] = addBufferLimit + 1
        /\ dLastErr[d] \in ProviderErrors
        /\ dCb[d] = <<dLastErr[d]>>

\* The removals a kickMultiple call issues are none unless the record is a
\* group with the bot among its admins, and exactly one of them carries the
\* caller's callback when there are some.
KickMultipleGuarded ==
    [][(memberCalls' = memberCalls + 1 /\ mLast'.op = "kickMultiple") =>
        LET new == SubSeq(removals', Len(removals) + 1, Len(removals'))
        IN  /\ ~(mLast'.isGroup /\ mLast'.botAdmin) => new = <<>>
            /\ new # <<>> => Cardinality({i \in DOMAIN new : new[i].cb}) = 1]_vars

\* C27: no sequence of kick and kickMultiple calls asks the provider to remove
\* the bot's own id; kickMultiple asks for no removal unless the record is a
\* group whose admins contain the bot's id; and when it kicks, exactly one of
\* the kicks is handed the caller's callback.
C27_BotNeverKicked ==
    /\ [](\A i \in DOMAIN removals : removals[i].user # BotId)
    /\ KickMultipleGuarded

\* C27 witness: kickMultiple, given a list with the bot's id between two
\* members, has asked for the removal of the two members, the first with the
\* callback.
C27_Witness ==
    /\ mLast.op = "kickMultiple"
    /\ mLast.userIds = <<"u1", BotId, "u2">>
    /\ removals = <<[user |-> "u1", cb |-> TRUE], [user |-> "u2", cb |-> FALSE]>>

====
